---- MODULE Spec2Model ----
(***************************************************************************)
(* A model of report_generator_local3.py: the priority-ranked site crawler *)
(* (scrape_website_with_subpages), the Brave search-result normalizer      *)
(* (fetch_brave_search_results) and the orchestrator                       *)
(* (generate_full_report).                                                 *)
(*                                                                         *)
(* Strings are sequences of tokens: a token is a maximal run of letters    *)
(* and digits, or one other character.  "https://example.com/about-us" is  *)
(* <<"https", ":", "/", "/", "example", ".", "com", "/", "about", "-",     *)
(* "us">>.  Python's str operations (in, ==, strip, split, startswith,     *)
(* endswith, replace, lower) are modelled as the same operations on token  *)
(* sequences.  The hrefs of the model hold no "." or ".." path segment.    *)
(***************************************************************************)
EXTENDS Integers, Sequences, FiniteSets, TLC

VARIABLES
  \* ---- scrape_website_with_subpages ----
  base_url,                \* the base_url argument, then the normalized base URL
  links,                   \* the anchors of the homepage, in document order
  pc,                      \* position of the crawler
  li,                      \* index of the anchor the discovery loop is at
  link_priority,           \* current_best_priority of each anchor scored so far
  potential_links,         \* dict normalized URL -> priority, in insertion order
  relevant_urls,           \* the traversal order
  ui,                      \* index of the candidate the subpage loop is at
  combined_text,           \* the sections appended so far
  scraped_urls,            \* set of URLs whose text was appended
  subpages_scraped_count,
  navigated,               \* every URL handed to driver.get, in call order
  failures,                \* subpage visits that raised, so far
  crawl_result,            \* what scrape_website_with_subpages returned
  \* ---- fetch_brave_search_results ----
  brave_config,            \* USE_BRAVE_SEARCH, BRAVE_API_KEY, BRAVE_SEARCH_API_ENDPOINT
  response,                \* what urlopen gives: a failure, or a status and a body
  bpc,                     \* position of the search
  results_list,            \* the extracted result items
  ri,                      \* index of the item the parsing loop is at
  parsed_results,          \* the records normalized so far
  fetch_result,            \* what fetch_brave_search_results returned
  \* ---- generate_full_report ----
  identifier,              \* the identifier argument
  lm_studio_client,        \* the module-level client, or none
  chromedriver_found,      \* os.path.exists(CHROMEDRIVER_PATH)
  rpc,                     \* position of the run
  raw_data,                \* the dataset handed to analyze_with_llm
  driver,                  \* none, running, quit, quit_failed
  temp_profile_dir_selenium, \* none, exists, removed
  session,                 \* none, open, closed
  events,                  \* the calls of collaborators and the delays, in order
  exception,               \* the exception in flight inside the try block
  report_result            \* what generate_full_report returns

crawl_vars ==
  <<base_url, links, pc, li, link_priority, potential_links, relevant_urls, ui,
    combined_text, scraped_urls, subpages_scraped_count, navigated, failures,
    crawl_result>>

brave_vars ==
  <<brave_config, response, bpc, results_list, ri, parsed_results, fetch_result>>

report_vars ==
  <<identifier, lm_studio_client, chromedriver_found, rpc, raw_data, driver,
    temp_profile_dir_selenium, session, events, exception, report_result>>

vars == <<crawl_vars, brave_vars, report_vars>>

-----------------------------------------------------------------------------
(* Program constants *)

WEBSITE_TEXT_LIMIT == 25000
MAX_SUBPAGES_TO_SCRAPE == 5

(* Bounds of the model *)

MaxLinks == 2          \* longest homepage whose anchors are drawn freely
MaxFailures == 1       \* subpage visits that may raise in one crawl

-----------------------------------------------------------------------------
(* Python str operations, on token sequences *)

Min(a, b) == IF a <= b THEN a ELSE b

StartsWith(s, p) == Len(p) <= Len(s) /\ SubSeq(s, 1, Len(p)) = p

EndsWith(s, p) == Len(p) <= Len(s) /\ SubSeq(s, Len(s) - Len(p) + 1, Len(s)) = p

\* p in s
Contains(s, p) == \E i \in 1..(Len(s) - Len(p) + 1) : SubSeq(s, i, i + Len(p) - 1) = p

\* s.find(c) + 1 for a one-token c drawn from the set cs; 0 when absent
FindAny(s, cs) ==
  IF \E i \in 1..Len(s) : s[i] \in cs
  THEN CHOOSE i \in 1..Len(s) : s[i] \in cs /\ \A j \in 1..(i - 1) : s[j] \notin cs
  ELSE 0

RECURSIVE RStrip(_, _)
RStrip(s, cs) ==
  IF s # <<>> /\ s[Len(s)] \in cs THEN RStrip(SubSeq(s, 1, Len(s) - 1), cs) ELSE s

RECURSIVE LStrip(_, _)
LStrip(s, cs) ==
  IF s # <<>> /\ s[1] \in cs THEN LStrip(Tail(s), cs) ELSE s

Strip(s, cs) == LStrip(RStrip(s, cs), cs)

Whitespace == {" "}

\* s.split(c): the pieces between the occurrences of the token c
RECURSIVE Split(_, _)
Split(s, c) ==
  LET i == FindAny(s, {c})
  IN  IF i = 0 THEN <<s>>
      ELSE <<SubSeq(s, 1, i - 1)>> \o Split(SubSeq(s, i + 1, Len(s)), c)

\* s.replace(p, '')
RECURSIVE Remove(_, _)
Remove(s, p) ==
  IF s = <<>> THEN <<>>
  ELSE IF StartsWith(s, p) THEN Remove(SubSeq(s, Len(p) + 1, Len(s)), p)
  ELSE <<s[1]>> \o Remove(Tail(s), p)

LowerToken(t) ==
  CASE t = "About" -> "about"
    [] t = "Acme" -> "acme"
    [] t = "Corp" -> "corp"
    [] t = "Company" -> "company"
    [] t = "Contact" -> "contact"
    [] t = "Jobs" -> "jobs"
    [] t = "Latest" -> "latest"
    [] t = "News" -> "news"
    [] t = "Products" -> "products"
    [] t = "Random" -> "random"
    [] t = "Support" -> "support"
    [] t = "Team" -> "team"
    [] t = "Who" -> "who"
    [] OTHER -> t

Lower(s) == [i \in 1..Len(s) |-> LowerToken(s[i])]

\* number of characters of a token
TokenLen(t) ==
  CASE t \in {"us", "we"} -> 2
    [] t \in {"Who", "abc", "are", "com", "our", "pdf", "www"} -> 3
    [] t \in {"Acme", "Corp", "Jobs", "News", "Team", "acme", "corp", "home", "http", "page",
              "team", "void"} -> 4
    [] t \in {"About", "about", "https", "other"} -> 5
    [] t \in {"Latest", "Random", "random"} -> 6
    [] t \in {"Company", "Contact", "Support", "careers", "contact", "example"} -> 7
    [] t \in {"Products", "products"} -> 8
    [] t \in {"javascript"} -> 10
    [] OTHER -> 1

\* len(s)
RECURSIVE StrLen(_)
StrLen(s) == IF s = <<>> THEN 0 ELSE TokenLen(s[1]) + StrLen(Tail(s))

-----------------------------------------------------------------------------
(* urllib.parse *)

SchemeDelims == {"/", "?", "#", ":", " ", "(", ")", "="}

\* urlsplit, last step: the query is what follows the first "?"
SplitQuery(scheme, netloc, rest, fragment) ==
  LET q == FindAny(rest, {"?"})
  IN  [scheme |-> scheme, netloc |-> netloc,
       path |-> IF q = 0 THEN rest ELSE SubSeq(rest, 1, q - 1),
       query |-> IF q = 0 THEN <<>> ELSE SubSeq(rest, q + 1, Len(rest)),
       fragment |-> fragment]

\* urlsplit, third step: the fragment is what follows the first "#"
SplitFragment(scheme, netloc, rest) ==
  LET h == FindAny(rest, {"#"})
  IN  SplitQuery(scheme, netloc,
                 IF h = 0 THEN rest ELSE SubSeq(rest, 1, h - 1),
                 IF h = 0 THEN <<>> ELSE SubSeq(rest, h + 1, Len(rest)))

\* urlsplit, second step: after "//" the netloc runs to the first "/", "?" or "#"
SplitNetloc(scheme, rest) ==
  LET hasNetloc == StartsWith(rest, <<"/", "/">>)
      d == FindAny(SubSeq(rest, 3, Len(rest)), {"/", "?", "#"})
  IN  SplitFragment(scheme,
                    IF ~hasNetloc THEN <<>>
                    ELSE IF d = 0 THEN SubSeq(rest, 3, Len(rest))
                    ELSE SubSeq(rest, 3, d + 1),
                    IF ~hasNetloc THEN rest
                    ELSE IF d = 0 THEN <<>>
                    ELSE SubSeq(rest, d + 2, Len(rest)))

\* urlsplit, first step: the scheme is what precedes the first ":"
SplitScheme(url, c) ==
  IF c > 1 /\ \A j \in 1..(c - 1) : url[j] \notin SchemeDelims
  THEN SplitNetloc(Lower(SubSeq(url, 1, c - 1)), SubSeq(url, c + 1, Len(url)))
  ELSE SplitNetloc(<<>>, url)

\* urlparse(url): scheme, netloc, path, query, fragment
UrlParse(url) == SplitScheme(url, FindAny(url, {":"}))

UsesRelative == {<<>>, <<"http">>, <<"https">>}

\* urlunparse(parts)
UrlUnparse(p) ==
  (IF p.scheme # <<>> THEN p.scheme \o <<":">> ELSE <<>>)
    \o (IF p.netloc # <<>> \/ (p.scheme \in (UsesRelative \ {<<>>})
                                /\ ~StartsWith(p.path, <<"/", "/">>))
        THEN <<"/", "/">> \o p.netloc
             \o (IF p.path # <<>> /\ p.path[1] # "/" THEN <<"/">> ELSE <<>>)
        ELSE <<>>)
    \o p.path
    \o (IF p.query # <<>> THEN <<"?">> \o p.query ELSE <<>>)
    \o (IF p.fragment # <<>> THEN <<"#">> \o p.fragment ELSE <<>>)

\* the directory part of a base path: everything before its last "/"
RECURSIVE DirOf(_)
DirOf(path) ==
  IF path = <<>> THEN <<>>
  ELSE IF path[Len(path)] = "/" THEN SubSeq(path, 1, Len(path) - 1)
  ELSE DirOf(SubSeq(path, 1, Len(path) - 1))

\* urljoin, once both URLs are parsed and the scheme of the result is known
JoinParsed(url, b, u0, scheme) ==
  IF scheme # b.scheme \/ scheme \notin UsesRelative THEN url
  ELSE UrlUnparse(
         [scheme |-> scheme,
          netloc |-> IF u0.netloc # <<>> THEN u0.netloc ELSE b.netloc,
          path |-> IF u0.netloc # <<>> THEN u0.path
                   ELSE IF u0.path = <<>> THEN b.path
                   ELSE IF u0.path[1] = "/" THEN u0.path
                   ELSE DirOf(b.path) \o <<"/">> \o u0.path,
          query |-> IF u0.netloc = <<>> /\ u0.path = <<>> /\ u0.query = <<>>
                    THEN b.query ELSE u0.query,
          fragment |-> u0.fragment])

JoinSchemes(url, b, u0) ==
  JoinParsed(url, b, u0, IF u0.scheme = <<>> THEN b.scheme ELSE u0.scheme)

\* urljoin(base, url)
UrlJoin(base, url) ==
  IF base = <<>> THEN url
  ELSE IF url = <<>> THEN base
  ELSE JoinSchemes(url, UrlParse(base), UrlParse(url))

-----------------------------------------------------------------------------
(* scrape_website_with_subpages: keyword taxonomy and relevance scoring *)

keywords ==
  <<
    <<"about">>, <<"about", "-", "us">>, <<"company">>, <<"who", "-", "we", "-", "are">>,
    <<"our", "-", "story">>, <<"mission">>, <<"vision">>, <<"values">>,
    <<"history">>, <<"overview">>, <<"team">>, <<"our", "-", "team">>,
    <<"leadership">>, <<"management">>, <<"our", "-", "management">>, <<"executives">>,
    <<"board">>, <<"directors">>, <<"people">>, <<"our", "-", "people">>,
    <<"staff">>, <<"personnel">>, <<"staff", "-", "directory">>, <<"faculty">>,
    <<"meet", "-", "the", "-", "team">>, <<"members">>, <<"consultants">>, <<"contact">>,
    <<"contact", "-", "us">>, <<"contact", "-", "information">>, <<"locations">>, <<"offices">>,
    <<"get", "-", "in", "-", "touch">>, <<"products">>, <<"services">>, <<"solutions">>,
    <<"platform">>, <<"offerings">>, <<"expertise">>, <<"what", "-", "we", "-", "do">>,
    <<"news">>, <<"press">>, <<"media">>, <<"updates">>,
    <<"blog">>, <<"articles">>, <<"insights">>, <<"resources">>,
    <<"publications">>, <<"newsletter">>, <<"careers">>, <<"jobs">>,
    <<"join", "-", "us">>, <<"hiring">>, <<"investor", "-", "relations">>, <<"investors">>,
    <<"clients">>, <<"customers">>, <<"partners">>, <<"portfolio">>,
    <<"case", "-", "studies">>, <<"testimonials">>, <<"reviews">>, <<"client", "-", "stories">>,
    <<"work">>, <<"projects">>, <<"brands">>, <<"support">>,
    <<"faq">>, <<"help">>, <<"governance">>
  >>

\* float('inf'): larger than every keyword index
Inf == Len(keywords)

\* the text a link is scored on
PathLower(href) == Lower(UrlParse(href).path)

NonEmpty(parts) == {parts[i] : i \in {j \in 1..Len(parts) : parts[j] # <<>>}}

\* [seg for seg in path_lower.split('/') if seg]
PathSegments(href) == NonEmpty(Split(PathLower(href), "/"))

LinkText(a) == Strip(Lower(a.text), Whitespace)

TitleText(a) == Strip(Lower(a.title), Whitespace)

\* the five match rules, in the order of the if/elif chain
PathExactMatch(k, path_lower) == k = Strip(path_lower, {"/"})

PathSegmentMatch(k, path_segments) == k \in path_segments

PathSubstringMatch(k, path_lower) ==
  \/ Contains(path_lower, <<"/">> \o k)
  \/ Contains(path_lower, k \o <<"/">>)
  \/ Contains(path_lower, <<"-">> \o k)
  \/ Contains(path_lower, k \o <<"-">>)

AnchorTextMatch(k, link_text) == Contains(link_text, k)

TitleMatch(k, title_text) == Contains(title_text, k)

IsMatch(k, path_lower, path_segments, link_text, title_text) ==
  \/ PathExactMatch(k, path_lower)
  \/ PathSegmentMatch(k, path_segments)
  \/ PathSubstringMatch(k, path_lower)
  \/ AnchorTextMatch(k, link_text)
  \/ TitleMatch(k, title_text)

\* the indexes (from 0) of the keywords that match the anchor a
MatchingPriorities(a) ==
  LET path_lower == PathLower(a.href)
      path_segments == PathSegments(a.href)
      link_text == LinkText(a)
      title_text == TitleText(a)
  IN  {i \in 0..(Len(keywords) - 1) :
         IsMatch(keywords[i + 1], path_lower, path_segments, link_text, title_text)}

\* min(current_best_priority, priority_index) over the matches, from float('inf')
LeastPriority(hits) ==
  IF hits = {} THEN Inf
  ELSE CHOOSE i \in hits : \A j \in hits : i <= j

GreatestPriority(hits) ==
  IF hits = {} THEN Inf
  ELSE CHOOSE i \in hits : \A j \in hits : i >= j

\* a scoring that keeps the index of the last keyword that matches
LastMatchingPriority(a) == GreatestPriority(MatchingPriorities(a))

\* a scoring that ranks a link matching no keyword behind the last keyword
UnmatchedRankedLast(a) == Min(LeastPriority(MatchingPriorities(a)), Inf - 1)

\* current_best_priority after the keyword loop: the least index that matches
BestPriority(a) == LeastPriority(MatchingPriorities(a))

-----------------------------------------------------------------------------
(* scrape_website_with_subpages: URL normalization and filtering *)

NonDocumentExtensions ==
  {"pdf", "jpg", "jpeg", "png", "gif", "svg", "webp", "zip", "rar", "tar", "gz",
   "doc", "docx", "xls", "xlsx", "ppt", "pptx", "mp3", "mp4", "avi", "mov",
   "css", "js", "xml", "rss", "txt", "json"}

\* 'https://' + base_url unless it already names a scheme
NormalizeBase(arg) ==
  IF StartsWith(arg, <<"http", ":", "/", "/">>) \/ StartsWith(arg, <<"https", ":", "/", "/">>)
  THEN arg
  ELSE <<"https", ":", "/", "/">> \o arg

AbsUrl(base, href) == UrlJoin(base, href)

\* urljoin(scheme + "://" + netloc, path.rstrip('/'))
NormalizeParsed(parsed_abs_url) ==
  UrlJoin(parsed_abs_url.scheme \o <<":", "/", "/">> \o parsed_abs_url.netloc,
          RStrip(parsed_abs_url.path, {"/"}))

\* normalized_abs_url: scheme://netloc + path without trailing slashes
NormalizedAbsUrl(base, href) == NormalizeParsed(UrlParse(AbsUrl(base, href)))

\* netloc.replace('www.', '')
Domain(netloc) == Remove(netloc, <<"www", ".">>)

HasNonDocumentExtension(url) ==
  \E e \in NonDocumentExtensions : EndsWith(Lower(url), <<".", e>>)

\* the filter on an absolute URL: same site, http(s), no fragment, a document
PassesFilter(abs_url, parsed_abs_url, parsed_base_url) ==
  /\ Domain(parsed_abs_url.netloc) = Domain(parsed_base_url.netloc)
  /\ parsed_abs_url.scheme \in {<<"http">>, <<"https">>}
  /\ ~StartsWith(abs_url, <<"javascript", ":">>)
  /\ parsed_abs_url.fragment = <<>>
  /\ ~HasNonDocumentExtension(abs_url)

FilterAbsUrl(base, abs_url) == PassesFilter(abs_url, UrlParse(abs_url), UrlParse(base))

\* the condition under which a scored link enters potential_links
IsCrawlable(base, href) == FilterAbsUrl(base, AbsUrl(base, href))

\* potential_links, a dict kept as its items in insertion order
HasKey(pl, url) == \E i \in 1..Len(pl) : pl[i].url = url

GetPriority(pl, url) ==
  IF HasKey(pl, url) THEN (CHOOSE e \in {pl[i] : i \in 1..Len(pl)} : e.url = url).priority
  ELSE Inf

SetPriority(pl, url, prio) ==
  IF HasKey(pl, url)
  THEN [i \in 1..Len(pl) |-> IF pl[i].url = url THEN [url |-> url, priority |-> prio] ELSE pl[i]]
  ELSE Append(pl, [url |-> url, priority |-> prio])

\* potential_links[url] = min(potential_links.get(url, inf), prio), when it changes
UpdatePriority(pl, url, existing, new) ==
  IF new < existing THEN SetPriority(pl, url, new)
  ELSE IF ~HasKey(pl, url) THEN SetPriority(pl, url, new)
  ELSE pl

LowerPriority(pl, url, existing, prio) == UpdatePriority(pl, url, existing, Min(existing, prio))

\* an update that keeps the score of the anchor read last
RecordLinkLastWins(pl, url, prio) == SetPriority(pl, url, prio)

\* the update of potential_links for one scored, crawlable link
RecordLink(pl, url, prio) == LowerPriority(pl, url, GetPriority(pl, url), prio)

\* sorted(potential_links.items(), key=score): stable
RECURSIVE InsertByScore(_, _)
InsertByScore(sorted, e) ==
  IF sorted = <<>> THEN <<e>>
  ELSE IF sorted[Len(sorted)].priority <= e.priority THEN Append(sorted, e)
  ELSE Append(InsertByScore(SubSeq(sorted, 1, Len(sorted) - 1), e), sorted[Len(sorted)])

RECURSIVE SortedLinks(_)
SortedLinks(pl) ==
  IF pl = <<>> THEN <<>>
  ELSE InsertByScore(SortedLinks(SubSeq(pl, 1, Len(pl) - 1)), pl[Len(pl)])

RelevantUrls(pl) == [i \in 1..Len(pl) |-> SortedLinks(pl)[i].url]

-----------------------------------------------------------------------------
(* scrape_website_with_subpages: the text it builds *)

Digits(n) == IF n < 10 THEN 1 ELSE 2

\* len(f"--- Homepage: {base_url} ---\n{homepage_text}\n\n")
\* len(f"\n--- Subpage (P{priority}): {url} ---\n{subpage_text}\n\n")
SectionLen(sec) ==
  IF sec.kind = "homepage"
  THEN 14 + StrLen(sec.url) + 5 + sec.text_len + 2
  ELSE 15 + Digits(sec.priority) + 3 + StrLen(sec.url) + 5 + sec.text_len + 2

RECURSIVE TextLen(_)
TextLen(text) == IF text = <<>> THEN 0 ELSE SectionLen(text[1]) + TextLen(Tail(text))

NoResult == [kind |-> "none", sections |-> <<>>, len |-> 0, msg |-> ""]

\* a return of combined_text without the slice
Untruncated(text) ==
  [kind |-> "text", sections |-> text, len |-> TextLen(text), msg |-> ""]

\* return combined_text[:WEBSITE_TEXT_LIMIT]
Truncated(text) ==
  [kind |-> "text", sections |-> text, len |-> Min(TextLen(text), WEBSITE_TEXT_LIMIT),
   msg |-> ""]

\* the bracketed placeholders returned on a homepage failure
FailedResult(why) ==
  CASE why = "timeout" ->
         [kind |-> "failed", sections |-> <<>>, len |-> 48,
          msg |-> "[Website scraping failed: Homepage body timeout]"]
    [] why = "webdriver" ->
         [kind |-> "failed", sections |-> <<>>, len |-> 51,
          msg |-> "[Website scraping failed due to WebDriverException]"]
    [] OTHER ->
         [kind |-> "failed", sections |-> <<>>, len |-> 49,
          msg |-> "[Website scraping failed due to unexpected error]"]

-----------------------------------------------------------------------------
(* Inputs of the crawler: the site given to it and the anchors of its      *)
(* homepage (href, visible text, title attribute)                          *)

AboutLink ==
  [href |-> <<"https", ":", "/", "/", "example", ".", "com", "/", "about">>,
   text |-> <<"About">>, title |-> <<>>]
AboutSlashLink ==
  [href |-> <<"https", ":", "/", "/", "example", ".", "com", "/", "about", "/">>,
   text |-> <<"Who", " ", "we", " ", "are">>, title |-> <<>>]
AboutWwwLink ==
  [href |-> <<"https", ":", "/", "/", "www", ".", "example", ".", "com", "/", "about">>,
   text |-> <<"About">>, title |-> <<>>]
AboutFragLink ==
  [href |-> <<"https", ":", "/", "/", "example", ".", "com", "/", "about", "#", "team">>,
   text |-> <<"Team">>, title |-> <<>>]
ProductsLink ==
  [href |-> <<"/", "products">>,
   text |-> <<"Products">>, title |-> <<>>]
RandomLink ==
  [href |-> <<"https", ":", "/", "/", "example", ".", "com", "/", "random", "-", "page">>,
   text |-> <<"Random">>, title |-> <<>>]
TeamLink ==
  [href |-> <<"https", ":", "/", "/", "example", ".", "com", "/", "team">>,
   text |-> <<"Team">>, title |-> <<>>]
AboutTeamLink ==
  [href |-> <<"https", ":", "/", "/", "example", ".", "com", "/", "about", "-", "team">>,
   text |-> <<>>, title |-> <<>>]
TextTeamLink ==
  [href |-> <<"https", ":", "/", "/", "example", ".", "com", "/", "x">>,
   text |-> <<"About", " ", "our", " ", "team">>, title |-> <<>>]
XTeamLink ==
  [href |-> <<"https", ":", "/", "/", "example", ".", "com", "/", "x", "/">>,
   text |-> <<"Team">>, title |-> <<>>]
TitleNewsLink ==
  [href |-> <<"https", ":", "/", "/", "example", ".", "com", "/", "y">>,
   text |-> <<>>, title |-> <<"Latest", " ", "News">>]
ContactLink ==
  [href |-> <<"https", ":", "/", "/", "example", ".", "com", "/", "contact", "-", "us">>,
   text |-> <<"Contact">>, title |-> <<>>]
CareersLink ==
  [href |-> <<"https", ":", "/", "/", "example", ".", "com", "/", "careers">>,
   text |-> <<"Jobs">>, title |-> <<>>]
OtherHostLink ==
  [href |-> <<"https", ":", "/", "/", "other", ".", "com", "/", "about">>,
   text |-> <<"About">>, title |-> <<>>]
PdfLink ==
  [href |-> <<"https", ":", "/", "/", "example", ".", "com", "/", "about", ".", "pdf">>,
   text |-> <<"About">>, title |-> <<>>]
PdfQueryLink ==
  [href |-> <<"https", ":", "/", "/", "example", ".", "com", "/", "about", ".", "pdf",
              "?", "v", "=", "2">>,
   text |-> <<"About">>, title |-> <<>>]
RootLink ==
  [href |-> <<"https", ":", "/", "/", "example", ".", "com", "/">>,
   text |-> <<"Company", " ", "home">>, title |-> <<>>]
RootWwwLink ==
  [href |-> <<"https", ":", "/", "/", "www", ".", "example", ".", "com", "/">>,
   text |-> <<"Company">>, title |-> <<>>]
ScriptLink ==
  [href |-> <<"javascript", ":", "void", "(", "0", ")">>,
   text |-> <<"Support">>, title |-> <<>>]
EmptyHrefLink ==
  [href |-> <<>>,
   text |-> <<"About">>, title |-> <<>>]

\* the anchors a homepage of up to MaxLinks anchors is drawn from
Anchors ==
  {AboutLink, AboutSlashLink, AboutWwwLink, AboutFragLink, ProductsLink, RandomLink,
   TeamLink, TextTeamLink, XTeamLink, PdfQueryLink, RootLink, RootWwwLink}

\* a homepage with more relevant links than the subpage cap, and its mirror
LargeHomepage ==
  <<CareersLink, RandomLink, ProductsLink, AboutLink, TitleNewsLink, RootLink,
    ContactLink, TeamLink, TextTeamLink, AboutSlashLink>>

Reversed(s) == [i \in 1..Len(s) |-> s[Len(s) + 1 - i]]

\* the scenario page: /about, /products, /random-page
ScenarioHomepage == <<AboutLink, ProductsLink, RandomLink>>

\* a homepage of links the filter rejects, among links it keeps
FilteredHomepage ==
  <<EmptyHrefLink, OtherHostLink, AboutTeamLink, PdfLink, ScriptLink, TeamLink>>

Homepages ==
  UNION {[1..n -> Anchors] : n \in 0..MaxLinks}
    \cup {LargeHomepage, Reversed(LargeHomepage), ScenarioHomepage, FilteredHomepage}

BaseArguments == {<<"example", ".", "com">>, <<"www", ".", "example", ".", "com">>}

\* characters of body text a page may render
SmallPage == 100
LargePage == 13000
HugePage == 30000

HomepageSizes == {SmallPage, HugePage}
SubpageSizes == {SmallPage, LargePage}

-----------------------------------------------------------------------------
(* scrape_website_with_subpages: the state machine *)

CrawlStart ==
  /\ base_url \in {NormalizeBase(b) : b \in BaseArguments}
  /\ links \in Homepages
  /\ pc = "init"
  /\ li = 1
  /\ link_priority = <<>>
  /\ potential_links = <<>>
  /\ relevant_urls = <<>>
  /\ ui = 1
  /\ combined_text = <<>>
  /\ scraped_urls = {}
  /\ subpages_scraped_count = 0
  /\ navigated = <<>>
  /\ failures = 0
  /\ crawl_result = NoResult

\* driver.get(base_url), the body is present, its text is appended
HomepageScraped ==
  /\ UNCHANGED <<brave_vars, report_vars>>
  /\ pc = "init"
  /\ \E n \in HomepageSizes :
       combined_text' = <<[kind |-> "homepage", url |-> base_url, priority |-> Inf,
                           text_len |-> n]>>
  /\ navigated' = Append(navigated, base_url)
  /\ scraped_urls' = scraped_urls \cup {base_url}
  /\ pc' = "links"
  /\ UNCHANGED <<base_url, links, li, link_priority, potential_links, relevant_urls, ui,
                 subpages_scraped_count, failures, crawl_result>>

\* a homepage failure that is logged and lets the crawl go on to the links
HomepageFailedContinues ==
  /\ UNCHANGED <<brave_vars, report_vars>>
  /\ pc = "init"
  /\ navigated' = Append(navigated, base_url)
  /\ pc' = "links"
  /\ UNCHANGED <<base_url, links, li, link_priority, potential_links, relevant_urls, ui,
                 combined_text, scraped_urls, subpages_scraped_count, failures, crawl_result>>

\* the wait for the homepage body times out, or the driver raises
HomepageFailed ==
  /\ UNCHANGED <<brave_vars, report_vars>>
  /\ pc = "init"
  /\ \E why \in {"timeout", "webdriver", "unexpected"} :
       crawl_result' = FailedResult(why)
  /\ navigated' = Append(navigated, base_url)
  /\ pc' = "done"
  /\ UNCHANGED <<base_url, links, li, link_priority, potential_links, relevant_urls, ui,
                 combined_text, scraped_urls, subpages_scraped_count, failures>>

\* the body of the loop over the anchors, for the anchor a scored prio
ScoreOne(a, prio) ==
  /\ link_priority' = Append(link_priority, prio)
  /\ potential_links' =
       IF prio # Inf /\ IsCrawlable(base_url, a.href)
       THEN RecordLink(potential_links, NormalizedAbsUrl(base_url, a.href), prio)
       ELSE potential_links

\* one iteration of `for link in links`
ScoreLink ==
  /\ UNCHANGED <<brave_vars, report_vars>>
  /\ pc = "links"
  /\ li <= Len(links)
  /\ ScoreOne(links[li], IF links[li].href = <<>> THEN Inf ELSE BestPriority(links[li]))
  /\ li' = li + 1
  /\ UNCHANGED <<base_url, links, pc, relevant_urls, ui, combined_text, scraped_urls,
                 subpages_scraped_count, navigated, failures, crawl_result>>

\* a discovery failure that still queues the candidates scored before it
DiscoveryFailedKeepsScored ==
  /\ UNCHANGED <<brave_vars, report_vars>>
  /\ pc = "links"
  /\ li <= Len(links) \/ links = <<>>
  /\ relevant_urls' = RelevantUrls(potential_links)
  /\ pc' = "subpages"
  /\ UNCHANGED <<base_url, links, li, link_priority, potential_links, ui, combined_text,
                 scraped_urls, subpages_scraped_count, navigated, failures, crawl_result>>

\* the wait for anchors times out, or reading an anchor raises
DiscoveryFailed ==
  /\ UNCHANGED <<brave_vars, report_vars>>
  /\ pc = "links"
  /\ li <= Len(links) \/ links = <<>>
  /\ relevant_urls' = <<>>
  /\ pc' = "subpages"
  /\ UNCHANGED <<base_url, links, li, link_priority, potential_links, ui, combined_text,
                 scraped_urls, subpages_scraped_count, navigated, failures, crawl_result>>

\* all anchors read: sort the candidates by score
LinksSorted ==
  /\ UNCHANGED <<brave_vars, report_vars>>
  /\ pc = "links"
  /\ li > Len(links)
  /\ links # <<>>
  /\ relevant_urls' = RelevantUrls(potential_links)
  /\ pc' = "subpages"
  /\ UNCHANGED <<base_url, links, li, link_priority, potential_links, ui, combined_text,
                 scraped_urls, subpages_scraped_count, navigated, failures, crawl_result>>

InLoop == pc = "subpages" /\ ui <= Len(relevant_urls)

\* a cap test that lets one more subpage through
AtCapOffByOne == subpages_scraped_count > MAX_SUBPAGES_TO_SCRAPE

AtCap == subpages_scraped_count >= MAX_SUBPAGES_TO_SCRAPE

AtLimit == TextLen(combined_text) >= WEBSITE_TEXT_LIMIT

Return ==
  /\ UNCHANGED <<brave_vars, report_vars>>
  /\ crawl_result' = Truncated(combined_text)
  /\ pc' = "done"
  /\ UNCHANGED <<base_url, links, li, link_priority, potential_links, relevant_urls, ui,
                 combined_text, scraped_urls, subpages_scraped_count, navigated, failures>>

\* break: the subpage cap is reached
ReachedSubpageCap == InLoop /\ AtCap /\ Return

\* continue: the candidate was scraped already
SkipScraped ==
  /\ UNCHANGED <<brave_vars, report_vars>>
  /\ InLoop
  /\ ~AtCap
  /\ relevant_urls[ui] \in scraped_urls
  /\ ui' = ui + 1
  /\ UNCHANGED <<base_url, links, pc, li, link_priority, potential_links, relevant_urls,
                 combined_text, scraped_urls, subpages_scraped_count, navigated, failures,
                 crawl_result>>

\* break: the text limit is reached
ReachedTextLimit ==
  /\ InLoop
  /\ ~AtCap
  /\ relevant_urls[ui] \notin scraped_urls
  /\ AtLimit
  /\ Return

CanVisit ==
  /\ InLoop
  /\ ~AtCap
  /\ relevant_urls[ui] \notin scraped_urls
  /\ ~AtLimit

\* driver.get(url); the body is present; the page text is appended
SubpageScraped ==
  /\ UNCHANGED <<brave_vars, report_vars>>
  /\ CanVisit
  /\ LET url == relevant_urls[ui]
     IN  /\ \E n \in SubpageSizes :
               combined_text' =
                 Append(combined_text,
                        [kind |-> "subpage", url |-> url,
                         priority |-> GetPriority(potential_links, url), text_len |-> n])
         /\ navigated' = Append(navigated, url)
         /\ scraped_urls' = scraped_urls \cup {url}
  /\ subpages_scraped_count' = subpages_scraped_count + 1
  /\ ui' = ui + 1
  /\ UNCHANGED <<base_url, links, pc, li, link_priority, potential_links, relevant_urls,
                 failures, crawl_result>>

\* a failed visit that leaves the loop at the same candidate
SubpageFailedRetried ==
  /\ UNCHANGED <<brave_vars, report_vars>>
  /\ CanVisit
  /\ failures < MaxFailures
  /\ failures' = failures + 1
  /\ navigated' = Append(navigated, relevant_urls[ui])
  /\ UNCHANGED <<base_url, links, pc, li, link_priority, potential_links, relevant_urls, ui,
                 combined_text, scraped_urls, subpages_scraped_count, crawl_result>>

\* driver.get(url) or the extraction raises: logged, next candidate
SubpageFailed ==
  /\ UNCHANGED <<brave_vars, report_vars>>
  /\ CanVisit
  /\ failures < MaxFailures
  /\ failures' = failures + 1
  /\ navigated' = Append(navigated, relevant_urls[ui])
  /\ ui' = ui + 1
  /\ UNCHANGED <<base_url, links, pc, li, link_priority, potential_links, relevant_urls,
                 combined_text, scraped_urls, subpages_scraped_count, crawl_result>>

\* the loop ran out of candidates
LoopExhausted ==
  /\ pc = "subpages"
  /\ ui > Len(relevant_urls)
  /\ Return

NextCrawl ==
  \/ HomepageScraped
  \/ HomepageFailed
  \/ ScoreLink
  \/ DiscoveryFailed
  \/ LinksSorted
  \/ ReachedSubpageCap
  \/ SkipScraped
  \/ ReachedTextLimit
  \/ SubpageScraped
  \/ SubpageFailed
  \/ LoopExhausted

-----------------------------------------------------------------------------
(* Properties of the crawler *)

Returned == pc = "done" /\ crawl_result.kind = "text"

\* the subpage sections of the returned text, in the order they were fetched
SubpageSections ==
  SelectSeq(crawl_result.sections, LAMBDA sec : sec.kind = "subpage")

NonDecreasing(secs) ==
  \A i, j \in 1..Len(secs) : i < j => secs[i].priority <= secs[j].priority

HomepageFirst ==
  /\ crawl_result.sections # <<>>
  /\ crawl_result.sections[1].kind = "homepage"
  /\ crawl_result.sections[1].url = base_url

\* the candidates of the traversal order that are not the base URL itself
FreshCandidates == {i \in 1..Len(relevant_urls) : relevant_urls[i] # base_url}

\* C1 as stated: when discovery yields more candidate URLs than the subpage
\* cap, exactly MAX_SUBPAGES_TO_SCRAPE subpages are fetched, in ascending
\* score order, and the homepage section comes first.
C1_ExactlyCapFetched ==
  (Returned /\ Len(potential_links) > MAX_SUBPAGES_TO_SCRAPE) =>
    /\ Len(SubpageSections) = MAX_SUBPAGES_TO_SCRAPE
    /\ NonDecreasing(SubpageSections)
    /\ HomepageFirst

\* C1 amended: every returned text starts with the homepage section and holds
\* at most MAX_SUBPAGES_TO_SCRAPE subpage sections in non-decreasing score
\* order; it holds exactly that many when more than that many candidates
\* other than the base URL were queued, no visit failed and the accumulated
\* text stayed under WEBSITE_TEXT_LIMIT.
C1_CapAndOrder ==
  Returned =>
    /\ HomepageFirst
    /\ Len(SubpageSections) <= MAX_SUBPAGES_TO_SCRAPE
    /\ Len(SubpageSections) = subpages_scraped_count
    /\ NonDecreasing(SubpageSections)
    /\ (/\ Cardinality(FreshCandidates) > MAX_SUBPAGES_TO_SCRAPE
        /\ failures = 0
        /\ TextLen(combined_text) < WEBSITE_TEXT_LIMIT)
       => Len(SubpageSections) = MAX_SUBPAGES_TO_SCRAPE

\* C1 witness: a crawl that queued more candidates than the cap and returned
\* exactly MAX_SUBPAGES_TO_SCRAPE subpages after the homepage.
C1_Witness ==
  /\ Returned
  /\ Cardinality(FreshCandidates) > MAX_SUBPAGES_TO_SCRAPE
  /\ Len(SubpageSections) = MAX_SUBPAGES_TO_SCRAPE
  /\ failures = 0

\* C2: whatever the outcome (text, homepage timeout, driver error), the
\* returned string is never longer than WEBSITE_TEXT_LIMIT.
C2_LengthWithinLimit ==
  pc = "done" => crawl_result.len <= WEBSITE_TEXT_LIMIT

\* C2 witness: a crawl that gathered more text than the limit and returned.
C2_Witness ==
  /\ Returned
  /\ TextLen(combined_text) > WEBSITE_TEXT_LIMIT
  /\ Len(combined_text) > 1

\* hrefs that differ only by a trailing slash, a fragment or a www. prefix
WithTrailingSlash(h) == h \o <<"/">>

WithFragment(h) == h \o <<"#", "team">>

WithWww(h) ==
  IF Len(h) >= 4 /\ SubSeq(h, 2, 4) = <<":", "/", "/">>
  THEN SubSeq(h, 1, 4) \o <<"www", ".">> \o SubSeq(h, 5, Len(h))
  ELSE h

DiffersOnlyBy(h1, h2) ==
  \/ h2 \in {WithTrailingSlash(h1), WithFragment(h1), WithWww(h1)}
  \/ h1 \in {WithTrailingSlash(h2), WithFragment(h2), WithWww(h2)}

\* C3 as stated: two hrefs of the homepage that differ only by a trailing
\* slash, a fragment or a www. prefix get the same normalized URL key, and no
\* two entries of the candidate map belong to such a pair.
C3_VariantsShareKey ==
  \A i, j \in 1..(li - 1) :
    (links[i].href # <<>> /\ DiffersOnlyBy(links[i].href, links[j].href)) =>
      NormalizedAbsUrl(base_url, links[i].href) = NormalizedAbsUrl(base_url, links[j].href)

\* C4 as stated: a link whose path equals a keyword never scores worse than
\* a link that holds that keyword elsewhere only (inside its path, its
\* anchor text or its title).
ContainsElsewhere(k, a) ==
  /\ ~PathExactMatch(k, PathLower(a.href))
  /\ \/ Contains(PathLower(a.href), k)
     \/ Contains(LinkText(a), k)
     \/ Contains(TitleText(a), k)

DiscoveryComplete == pc = "links" /\ li > Len(links)

ScoredLinks == {i \in 1..Len(link_priority) : links[i].href # <<>>}

C4_ExactBeatsSubstring ==
  DiscoveryComplete =>
    \A i \in ScoredLinks :
      LET p == PathLower(links[i].href)
      IN  \A k \in 1..Len(keywords) :
            PathExactMatch(keywords[k], p) =>
              \A j \in ScoredLinks :
                ContainsElsewhere(keywords[k], links[j]) =>
                  link_priority[i] <= link_priority[j]

\* C4 amended: a link whose path equals the keyword at index k scores at most
\* k, and never worse than a link that holds that keyword elsewhere only and
\* matches no keyword listed before it.
C4_ExactBeatsLaterMatches ==
  DiscoveryComplete =>
    \A i \in ScoredLinks :
      LET p == PathLower(links[i].href)
      IN  \A k \in 1..Len(keywords) :
            PathExactMatch(keywords[k], p) =>
              /\ link_priority[i] <= k - 1
              /\ \A j \in ScoredLinks :
                   (/\ ContainsElsewhere(keywords[k], links[j])
                    /\ \A e \in MatchingPriorities(links[j]) : e >= k - 1)
                   => link_priority[i] <= link_priority[j]

\* C4 witness: /team (path equals the keyword) and a link that holds "team"
\* in its anchor text only have both been scored.
C4_Witness ==
  /\ DiscoveryComplete
  /\ links = <<TeamLink, XTeamLink>>
  /\ ContainsElsewhere(<<"team">>, XTeamLink)
  /\ link_priority[1] <= link_priority[2]

\* C5: every entry added to the candidate map during link discovery comes from
\* a link that matched a keyword, every subpage navigated to is an entry of the candidate map, and
\* the homepage linking /about, /products and /random-page yields the
\* homepage, /about and /products sections in that order and nothing else.
Visited == {navigated[i] : i \in 2..Len(navigated)}

C5_UnmatchedNeverQueued ==
  /\ pc = "links" =>
       \A e \in 1..Len(potential_links) :
         \E i \in ScoredLinks :
           /\ link_priority[i] # Inf
           /\ MatchingPriorities(links[i]) # {}
           /\ NormalizedAbsUrl(base_url, links[i].href) = potential_links[e].url
  /\ \A u \in Visited : HasKey(potential_links, u)
  /\ (/\ Returned
      /\ links = ScenarioHomepage
      /\ base_url = <<"https", ":", "/", "/", "example", ".", "com">>
      /\ relevant_urls # <<>>
      /\ failures = 0
      /\ TextLen(combined_text) < WEBSITE_TEXT_LIMIT)
     => [i \in 1..Len(crawl_result.sections) |-> crawl_result.sections[i].url]
          = <<base_url, base_url \o <<"/", "about">>, base_url \o <<"/", "products">> >>

\* C5 witness: the scenario homepage was crawled to the end and its
\* /random-page link, which matches no keyword, was scored.
C5_Witness ==
  /\ Returned
  /\ links = ScenarioHomepage
  /\ Len(crawl_result.sections) = Len(links)
  /\ link_priority[Len(links)] = Inf

\* the crawl got past its first step and holds no homepage section: the wait
\* for the homepage body timed out or the driver raised
HomepageDidFail == pc \notin {"idle", "init"} /\ combined_text = <<>>

FailurePlaceholders ==
  {"[Website scraping failed: Homepage body timeout]",
   "[Website scraping failed due to WebDriverException]",
   "[Website scraping failed due to unexpected error]"}

\* C23: if the wait for the homepage body times out, or the driver raises
\* while the homepage is fetched, scrape_website_with_subpages returns one
\* bracketed failure placeholder that holds no scraped page text, and no
\* subpage is navigated to afterwards; it returns such a placeholder in no
\* other case.
C23_HomepageFailureIsFatal ==
  /\ HomepageDidFail =>
       /\ pc = "done"
       /\ crawl_result.kind = "failed"
       /\ crawl_result.msg \in FailurePlaceholders
       /\ crawl_result.sections = <<>>
       /\ navigated = <<base_url>>
       /\ subpages_scraped_count = 0
       /\ potential_links = <<>>
  /\ (pc = "done" /\ crawl_result.kind = "failed") => HomepageDidFail

\* C23 witness: the homepage that links /about and /products timed out, and
\* the crawl has returned its placeholder.
C23_Witness ==
  /\ pc = "done"
  /\ HomepageDidFail
  /\ links = ScenarioHomepage
  /\ crawl_result = FailedResult("timeout")

\* the candidates the loop has dealt with, the base URL apart
CandidatesTried ==
  SelectSeq(SubSeq(relevant_urls, 1, ui - 1), LAMBDA u : u # base_url)

\* the subpages navigated to that left no section in the text
FailedVisits ==
  {i \in 2..Len(navigated) :
     \A s \in 1..Len(combined_text) : combined_text[s].url # navigated[i]}

\* C24: if navigating to a subpage or extracting it fails, the loop goes on
\* with the next candidate: the failed page leaves no text in the result, is
\* not counted toward the subpage cap, and is not navigated to again in the
\* same crawl.
C24_FailedSubpageSkipped ==
  pc \in {"subpages", "done"} /\ ~HomepageDidFail =>
    /\ Tail(navigated) = CandidatesTried
    /\ \A i, j \in 1..Len(navigated) : i # j => navigated[i] # navigated[j]
    /\ Cardinality(FailedVisits) = failures
    /\ subpages_scraped_count = Len(navigated) - 1 - failures
    /\ Len(combined_text) = 1 + subpages_scraped_count

\* C24 witness: a crawl has returned after a subpage failed and a later
\* candidate was scraped.
C24_Witness ==
  /\ Returned
  /\ failures > 0
  /\ \E i \in FailedVisits : i < Len(navigated) /\ Len(navigated) \notin FailedVisits

\* the host of a URL, www. aside
HostOf(url) == Domain(UrlParse(url).netloc)

\* C25: every URL navigated to in the subpage loop has the host of the base
\* URL, www. aside, and a path that does not end in one of the listed
\* non-document extensions, whatever the hrefs of the homepage, hrefs with a
\* query string included.
C25_OnlySameSiteDocuments ==
  \A i \in 2..Len(navigated) :
    /\ HostOf(navigated[i]) = HostOf(base_url)
    /\ ~HasNonDocumentExtension(UrlParse(navigated[i]).path)

\* the anchors read so far that the filter let through with a score
Accepted ==
  {i \in ScoredLinks : link_priority[i] # Inf /\ IsCrawlable(base_url, links[i].href)}

KeyOf(i) == NormalizedAbsUrl(base_url, links[i].href)

Entries(url) == {e \in 1..Len(potential_links) : potential_links[e].url = url}

IsSiteRoot(url) ==
  /\ HostOf(url) = HostOf(base_url)
  /\ RStrip(UrlParse(url).path, {"/"}) = <<>>

\* C27: the homepage is never fetched a second time as a subpage: a link of
\* the homepage that points back at the site root (with or without a trailing
\* slash, with or without www.) and matches a keyword through its anchor text
\* or title is skipped by the subpage loop as already scraped.
C27_HomepageNotRefetched ==
  \A i \in 2..Len(navigated) : ~IsSiteRoot(navigated[i])

\* the homepage was scraped and link discovery ended before every anchor was
\* read: the wait for anchors timed out, or reading an anchor raised
DiscoveryDidFail ==
  /\ pc \in {"subpages", "done"}
  /\ ~HomepageDidFail
  /\ li <= Len(links) \/ links = <<>>

\* C28: if link discovery on the homepage fails, no subpage is fetched, not
\* even a candidate scored before the failure, and the crawl returns the
\* homepage section alone, as a successful result and not as a failure
\* placeholder.
C28_DiscoveryFailureKeepsHomepage ==
  DiscoveryDidFail =>
    /\ relevant_urls = <<>>
    /\ navigated = <<base_url>>
    /\ subpages_scraped_count = 0
    /\ pc = "done" =>
         /\ Returned
         /\ Len(crawl_result.sections) = 1
         /\ HomepageFirst

\* C28 witness: discovery failed after /about had been scored and queued, and
\* the crawl has returned.
C28_Witness ==
  /\ pc = "done"
  /\ DiscoveryDidFail
  /\ li > 1
  /\ links[1] = AboutLink
  /\ HasKey(potential_links, base_url \o <<"/", "about">>)

-----------------------------------------------------------------------------
(* JSON values as json.loads returns them, and Python's operations on them *)

None == [t |-> "null"]

Str(s) == [t |-> "str", s |-> s]

Num(n) == [t |-> "num", n |-> n]

List(l) == [t |-> "list", l |-> l]

Dict(d) == [t |-> "dict", d |-> d]

NoKeys == [k \in {} |-> None]

EmptyDict == Dict(NoKeys)

IsDict(v) == v.t = "dict"

IsList(v) == v.t = "list"

IsStr(v) == v.t = "str"

\* bool(v)
Truthy(v) ==
  CASE v.t = "null" -> FALSE
    [] v.t = "str" -> v.s # <<>>
    [] v.t = "num" -> v.n # 0
    [] v.t = "list" -> v.l # <<>>
    [] v.t = "dict" -> DOMAIN v.d # {}

\* key in v, v.get(key), for a dict v
Has(v, key) == key \in DOMAIN v.d

Get(v, key) == IF key \in DOMAIN v.d THEN v.d[key] ELSE None

\* a or b
Or(a, b) == IF Truthy(a) THEN a ELSE b

\* {**f, **g} for dicts with disjoint keys
Merge(f, g) ==
  [k \in DOMAIN f \cup DOMAIN g |-> IF k \in DOMAIN f THEN f[k] ELSE g[k]]

\* the str a token sequence stands for, as a dict key
RECURSIVE JoinTokens(_)
JoinTokens(s) == IF s = <<>> THEN "" ELSE s[1] \o JoinTokens(Tail(s))

RECURSIVE Flatten(_)
Flatten(ss) == IF ss = <<>> THEN <<>> ELSE ss[1] \o Flatten(Tail(ss))

-----------------------------------------------------------------------------
(* fetch_brave_search_results: extraction of the result list *)

NoResultsType == Str(<<"no", "_", "results">>)

\* 'mixed' in data and data.get('mixed', {}).get('type'): the value under
\* mixed has no .get
SignalRaises(data) == Has(data, "mixed") /\ ~IsDict(Get(data, "mixed"))

\* a signal honoured only where the mixed branch is reached
NoResultsSignalInMixedBranch(data) ==
  /\ Has(data, "mixed")
  /\ IsDict(Get(data, "mixed"))
  /\ Get(Get(data, "mixed"), "type") = NoResultsType
  /\ \A key \in {"news", "web", "discussions"} : ~Truthy(Get(data, key))
  /\ ~IsList(Get(data, "results"))
  /\ ~IsList(Get(data, "hits"))

\* 'mixed' in data and data.get('mixed', {}).get('type') == 'no_results'
NoResultsSignal(data) ==
  /\ Has(data, "mixed")
  /\ IsDict(Get(data, "mixed"))
  /\ Get(Get(data, "mixed"), "type") = NoResultsType

\* d.get(key) and isinstance(d[key].get("results"), list)
ContainerRaises(d, key) == Truthy(Get(d, key)) /\ ~IsDict(Get(d, key))

ContainerHasList(d, key) ==
  /\ Truthy(Get(d, key))
  /\ IsDict(Get(d, key))
  /\ IsList(Get(Get(d, key), "results"))

ContainerList(d, key) ==
  IF ContainerHasList(d, key) THEN Get(Get(d, key), "results").l ELSE <<>>

\* process_result_container, one item of a list container
TypeKey(item) ==
  LET item_type == Get(item, "type")
  IN  IF IsStr(item_type) THEN JoinTokens(item_type.s) ELSE ""

UnwrapRaises(item) ==
  /\ IsDict(item)
  /\ Truthy(Get(item, "type"))
  /\ Get(item, "type").t \in {"list", "dict"}

Unwrap(item) ==
  IF ~IsDict(item) THEN <<>>
  ELSE
    LET item_type == Get(item, "type")
        inner == Get(item, TypeKey(item))
        inner_result == Get(item, TypeKey(item) \o "_result")
    IN  IF Truthy(item_type) /\ Truthy(inner) /\ IsDict(inner) THEN <<inner>>
        ELSE IF Truthy(item_type) /\ Truthy(inner_result) /\ IsDict(inner_result)
        THEN <<inner_result>>
        ELSE IF Has(item, "title") /\ Has(item, "url") THEN <<item>>
        ELSE <<>>

\* process_result_container(container_data)
ProcessRaises(c) ==
  IsList(c) /\ \E i \in 1..Len(c.l) : UnwrapRaises(c.l[i])

process_result_container(c) ==
  IF ~Truthy(c) THEN <<>>
  ELSE IF IsList(c) THEN Flatten([i \in 1..Len(c.l) |-> Unwrap(c.l[i])])
  ELSE IF IsDict(c)
  THEN IF IsList(Get(c, "results")) THEN Get(c, "results").l
       ELSE IF Has(c, "title") /\ Has(c, "url") THEN <<c>>
       ELSE <<>>
  ELSE <<>>

\* the lists under mixed['searches'][i]['results']
SearchesResults(m) ==
  LET searches == Get(m, "searches")
  IN  IF Truthy(searches) /\ IsList(searches)
      THEN Flatten([i \in 1..Len(searches.l) |->
                      LET search_item == searches.l[i]
                      IN  IF /\ IsDict(search_item)
                             /\ Truthy(Get(search_item, "results"))
                             /\ IsList(Get(search_item, "results"))
                          THEN Get(search_item, "results").l
                          ELSE <<>>])
      ELSE <<>>

Regions == <<"main", "top", "side">>

RegionItems(m) ==
  Flatten([i \in 1..Len(Regions) |->
             IF Has(m, Regions[i]) THEN process_result_container(Get(m, Regions[i]))
             ELSE <<>>])

\* extraction from a dict under data['mixed']
MixedRaises(m) ==
  \/ \E key \in {"web", "news", "discussions"} : ContainerRaises(m, key)
  \/ \E i \in 1..Len(Regions) : Has(m, Regions[i]) /\ ProcessRaises(Get(m, Regions[i]))

MixedResults(m) ==
  LET direct == ContainerList(m, "web") \o ContainerList(m, "news")
                  \o ContainerList(m, "discussions")
      first == direct \o SearchesResults(m) \o RegionItems(m)
      fallback == (IF IsList(Get(m, "results")) THEN Get(m, "results").l ELSE <<>>)
                    \o direct
  IN  IF first = <<>> THEN fallback ELSE first

Raised == [outcome |-> "raised", list |-> <<>>]

SignalledNoResults == [outcome |-> "no_results", list |-> <<>>]

Found(l) == [outcome |-> "list", list |-> l]

\* lines 195-346: what the extraction does with the decoded body
Extract(data) ==
  IF ~IsDict(data) THEN Raised
  ELSE IF SignalRaises(data) THEN Raised
  ELSE IF NoResultsSignal(data) THEN SignalledNoResults
  ELSE IF ContainerRaises(data, "news") THEN Raised
  ELSE IF ContainerHasList(data, "news") THEN Found(ContainerList(data, "news"))
  ELSE IF ContainerRaises(data, "web") THEN Raised
  ELSE IF ContainerHasList(data, "web") THEN Found(ContainerList(data, "web"))
  ELSE IF ContainerRaises(data, "discussions") THEN Raised
  ELSE IF ContainerHasList(data, "discussions")
  THEN Found(ContainerList(data, "discussions"))
  ELSE IF IsList(Get(data, "results")) THEN Found(Get(data, "results").l)
  ELSE IF IsList(Get(data, "hits")) THEN Found(Get(data, "hits").l)
  ELSE IF Truthy(Get(data, "mixed"))
  THEN IF MixedRaises(Get(data, "mixed")) THEN Raised
       ELSE Found(MixedResults(Get(data, "mixed")))
  ELSE Found(<<>>)

-----------------------------------------------------------------------------
(* fetch_brave_search_results: normalization of one result item *)

NoTitle == Str(<<"No", " ", "title">>)

NoContent == Str(<<"No", " ", "content", " ", "available", ".">>)

UnknownProvider == Str(<<"Unknown", " ", "Provider">>)

Title(res) ==
  LET title == IF Has(res, "title") THEN Get(res, "title") ELSE NoTitle
  IN  IF title = NoTitle /\ Truthy(Get(res, "name")) THEN Get(res, "name") ELSE title

HasWeb(res, key) == IsDict(Get(res, "web")) /\ Truthy(Get(Get(res, "web"), key))

\* a description taken from the description key only
DescriptionTopLevelOnly(res) ==
  IF ~Truthy(Get(res, "description")) THEN NoContent ELSE Get(res, "description")

Description(res) ==
  LET top == Or(Get(res, "description"), Get(res, "snippet"))
      nested == IF ~Truthy(top) /\ HasWeb(res, "snippet")
                THEN Get(Get(res, "web"), "snippet") ELSE top
  IN  IF ~Truthy(nested) THEN NoContent ELSE nested

\* a url_val taken from the top level only
UrlValTopLevelOnly(res) == Get(res, "url")

UrlVal(res) ==
  LET url_val == Get(res, "url")
  IN  IF ~Truthy(url_val) /\ HasWeb(res, "url") THEN Get(Get(res, "web"), "url")
      ELSE url_val

Provider(res) ==
  LET named == IF IsDict(Get(res, "meta_url"))
               THEN Get(Get(res, "meta_url"), "display_name")
               ELSE IF Has(res, "source") THEN Get(res, "source")
               ELSE IF Truthy(Get(res, "profile")) /\ IsDict(Get(res, "profile"))
               THEN Get(Get(res, "profile"), "name")
               ELSE None
      url_val == UrlVal(res)
      provider_name == IF ~Truthy(named) /\ Truthy(url_val) /\ IsStr(url_val)
                       THEN Str(UrlParse(url_val.s).netloc)
                       ELSE named
  IN  Or(provider_name, UnknownProvider)

\* description.strip() on a value that is no str
NormalizeRaises(res) == ~IsStr(Description(res))

\* the record appended to parsed_results
Normalize(res) ==
  [title |-> Title(res),
   description |-> Str(Strip(Description(res).s, Whitespace)),
   url |-> UrlVal(res),
   provider |-> Provider(res),
   date_published |-> Or(Get(res, "age"), Str(<<>>))]

-----------------------------------------------------------------------------
(* fetch_brave_search_results: what it returns *)

NoFetchResult == [status |-> "none", message |-> "", results |-> <<>>]

ErrorResult(message) == [status |-> "error", message |-> message, results |-> <<>>]

EmptySuccess(message) == [status |-> "success", message |-> message, results |-> <<>>]

\* {"status": "success", "results": parsed_results}: no message key
Success(results) == [status |-> "success", message |-> "", results |-> results]

-----------------------------------------------------------------------------
(* Inputs of the search: the configuration and the HTTP exchange *)

MaxItems == 2          \* longest result list whose items are drawn freely

AcmeTitle == Str(<<"Acme">>)

SnippetText == <<"Acme", " ", "grows">>

ItemUrl == <<"https", ":", "/", "/", "a", ".", "com", "/", "x">>

Snippets == {<<>>, <<" ">>, SnippetText}

Urls == {<<>>, ItemUrl}

\* an item that carries snippet and URL at the top level
FlatItem(s, u) == Dict([title |-> AcmeTitle, description |-> Str(s), url |-> Str(u)])

\* the same item carrying them under web only
NestedItem(s, u) ==
  Dict([title |-> AcmeTitle, web |-> Dict([snippet |-> Str(s), url |-> Str(u)])])

Items ==
  {FlatItem(s, u) : s \in Snippets, u \in Urls}
    \cup {NestedItem(s, u) : s \in Snippets, u \in Urls}

PlainItem == FlatItem(SnippetText, ItemUrl)

MetaItem ==
  Dict([title |-> AcmeTitle, description |-> Str(SnippetText), url |-> Str(ItemUrl),
        meta_url |-> Dict([display_name |-> Str(<<"Wire">>)]),
        source |-> Str(<<"Desk">>), age |-> Str(<<"2", " ", "days">>)])

MetaSourceItem ==
  Dict([title |-> AcmeTitle, description |-> Str(SnippetText), url |-> Str(ItemUrl),
        meta_url |-> Dict([hostname |-> Str(<<"a", ".", "com">>)]),
        source |-> Str(<<"Desk">>)])

SourceItem ==
  Dict([title |-> AcmeTitle, description |-> Str(SnippetText), url |-> Str(ItemUrl),
        source |-> Str(<<"Desk">>), profile |-> Dict([name |-> Str(<<"Blog">>)])])

ProfileItem ==
  Dict([title |-> AcmeTitle, snippet |-> Str(SnippetText), url |-> Str(ItemUrl),
        profile |-> Dict([name |-> Str(<<"Blog">>)])])

NameItem == Dict([name |-> Str(<<"Clip">>), description |-> Str(SnippetText)])

EmptyTitleItem == Dict([title |-> Str(<<>>), description |-> Str(SnippetText)])

BareItem == Dict([title |-> AcmeTitle])

NumDescriptionItem == Dict([title |-> AcmeTitle, description |-> Num(5)])

JunkItem == Str(<<"junk">>)

\* an item that carries a different text under each description field
AllFieldsItem ==
  Dict([title |-> AcmeTitle, description |-> Str(<<"first">>),
        snippet |-> Str(<<"second">>), web |-> Dict([snippet |-> Str(<<"third">>)])])

\* items of a mixed container: wrappers around a record
WrappedWeb == Dict([type |-> Str(<<"web">>), web |-> PlainItem])

ResultWrapper == Dict([type |-> Str(<<"news">>), news_result |-> PlainItem])

TypeOnlyItem == Dict([type |-> Str(<<"web">>)])

ItemLists ==
  UNION {[1..n -> Items] : n \in 0..MaxItems}
    \cup {<<MetaItem, SourceItem, ProfileItem>>,
          <<MetaSourceItem, NameItem, EmptyTitleItem>>,
          <<JunkItem, BareItem, PlainItem>>,
          <<PlainItem, NumDescriptionItem>>,
          <<AllFieldsItem, ProfileItem, NestedItem(SnippetText, ItemUrl), BareItem>>}

\* the values a payload may hold under one key, besides being without it
KeyOptions(key, values) == {NoKeys} \cup {[k \in {key} |-> v] : v \in values}

Results(l) == Dict([results |-> List(l)])

NoResultsMixed == Dict([type |-> NoResultsType])

MixedValues ==
  {NoResultsMixed,
   None,
   Str(<<"x">>),
   List(<<>>),
   List(<<WrappedWeb, ResultWrapper, PlainItem, TypeOnlyItem, JunkItem>>),
   Dict([type |-> Str(<<"search">>)]),
   Dict([main |-> List(<<WrappedWeb, PlainItem>>)]),
   Dict([main |-> Results(<<WrappedWeb>>), top |-> List(<<ResultWrapper>>)]),
   Dict([side |-> PlainItem]),
   Dict([searches |-> List(<<Results(<<WrappedWeb>>), JunkItem>>)]),
   Dict([web |-> Results(<<PlainItem>>), news |-> Results(<<MetaItem>>)]),
   Dict([results |-> List(<<PlainItem>>)]),
   Dict([web |-> Str(<<"x">>)])}

\* payloads that vary the containers
ContainerPayloads ==
  {Dict(Merge(Merge(Merge(n, w), Merge(d, r)), Merge(h, m))) :
     n \in KeyOptions("news", {Results(<<>>), Results(<<PlainItem>>), Str(<<"x">>)}),
     w \in KeyOptions("web", {Results(<<>>), Results(<<SourceItem>>)}),
     d \in KeyOptions("discussions", {Results(<<ProfileItem>>)}),
     r \in KeyOptions("results", {List(<<>>), List(<<NameItem>>)}),
     h \in KeyOptions("hits", {List(<<BareItem>>)}),
     m \in KeyOptions("mixed", MixedValues)}

\* payloads that vary the items of the news list
NewsPayloads ==
  {Dict(Merge([news |-> Results(l)], m)) :
     l \in ItemLists,
     m \in KeyOptions("mixed", {NoResultsMixed, List(<<>>)})}

Payloads == ContainerPayloads \cup NewsPayloads \cup {List(<<>>)}

NoResponse == [kind |-> "none", body |-> None]

TransportFailures == {"status", "bad_json", "http_error", "network"}

Responses ==
  {[kind |-> "ok", body |-> p] : p \in Payloads}
    \cup {[kind |-> k, body |-> None] : k \in TransportFailures}

BraveConfigs == {"unset", "disabled", "no_key", "ready"}

-----------------------------------------------------------------------------
(* fetch_brave_search_results: the state machine *)

BraveRestIdle ==
  /\ response = NoResponse
  /\ bpc = "idle"
  /\ results_list = <<>>
  /\ ri = 1
  /\ parsed_results = <<>>
  /\ fetch_result = NoFetchResult

BraveIdle == brave_config = "unset" /\ BraveRestIdle

BraveStart ==
  /\ \/ brave_config = "ready" /\ response \in Responses
     \/ brave_config \in BraveConfigs \ {"ready"} /\ response = NoResponse
  /\ bpc = "start"
  /\ results_list = <<>>
  /\ ri = 1
  /\ parsed_results = <<>>
  /\ fetch_result = NoFetchResult

Returns(result) ==
  /\ fetch_result' = result
  /\ bpc' = "done"
  /\ UNCHANGED <<brave_config, response, results_list, ri, parsed_results>>
  /\ UNCHANGED <<crawl_vars, report_vars>>

\* USE_BRAVE_SEARCH is not defined: NameError leaves the function
BraveConfigUndefined ==
  /\ bpc = "start"
  /\ brave_config = "unset"
  /\ bpc' = "raised"
  /\ UNCHANGED <<brave_config, response, results_list, ri, parsed_results, fetch_result>>
  /\ UNCHANGED <<crawl_vars, report_vars>>

BraveDisabled ==
  /\ bpc = "start"
  /\ brave_config = "disabled"
  /\ Returns(ErrorResult("Brave Search is not configured or disabled."))

BraveKeyMissing ==
  /\ bpc = "start"
  /\ brave_config = "no_key"
  /\ Returns(ErrorResult("Brave Search API key or endpoint not configured or is a placeholder."))

\* urllib.request.urlopen(req, timeout=REQUESTS_TIMEOUT)
RequestSent ==
  /\ bpc = "start"
  /\ brave_config = "ready"
  /\ bpc' = "sent"
  /\ UNCHANGED <<brave_config, response, results_list, ri, parsed_results, fetch_result>>
  /\ UNCHANGED <<crawl_vars, report_vars>>

\* urlopen raises URLError (HTTPError for a 4xx or 5xx status)
RequestFailed ==
  /\ bpc = "sent"
  /\ response.kind \in {"http_error", "network"}
  /\ Returns(ErrorResult("URL Error reaching Brave API: "))

\* a response whose status is not 200
StatusNot200 ==
  /\ bpc = "sent"
  /\ response.kind = "status"
  /\ Returns(ErrorResult("Brave API request failed with status "))

JsonDecodeFailed ==
  /\ bpc = "sent"
  /\ response.kind = "bad_json"
  /\ Returns(ErrorResult("JSON decoding failed: "))

Decoded == bpc = "sent" /\ response.kind = "ok"

ExplicitNoResults ==
  /\ Decoded
  /\ Extract(response.body).outcome = "no_results"
  /\ Returns(EmptySuccess("No search results found for "))

\* an AttributeError or TypeError of the extraction, caught at line 425
ExtractionRaised ==
  /\ Decoded
  /\ Extract(response.body).outcome = "raised"
  /\ Returns(ErrorResult("An unexpected error occurred: "))

NothingExtracted ==
  /\ Decoded
  /\ Extract(response.body) = Found(<<>>)
  /\ Returns(EmptySuccess("No search results found or extracted for "))

ResultsExtracted ==
  /\ Decoded
  /\ Extract(response.body).outcome = "list"
  /\ Extract(response.body).list # <<>>
  /\ results_list' = Extract(response.body).list
  /\ bpc' = "parse"
  /\ UNCHANGED <<brave_config, response, ri, parsed_results, fetch_result>>
  /\ UNCHANGED <<crawl_vars, report_vars>>

Parsing == bpc = "parse" /\ ri <= Len(results_list)

SkipNonDictItem ==
  /\ Parsing
  /\ ~IsDict(results_list[ri])
  /\ ri' = ri + 1
  /\ UNCHANGED <<brave_config, response, bpc, results_list, parsed_results, fetch_result>>
  /\ UNCHANGED <<crawl_vars, report_vars>>

ParseItem ==
  /\ Parsing
  /\ IsDict(results_list[ri])
  /\ ~NormalizeRaises(results_list[ri])
  /\ parsed_results' = Append(parsed_results, Normalize(results_list[ri]))
  /\ ri' = ri + 1
  /\ UNCHANGED <<brave_config, response, bpc, results_list, fetch_result>>
  /\ UNCHANGED <<crawl_vars, report_vars>>

\* the item raises inside the loop: caught at line 425
ParseRaised ==
  /\ Parsing
  /\ IsDict(results_list[ri])
  /\ NormalizeRaises(results_list[ri])
  /\ Returns(ErrorResult("An unexpected error occurred: "))

ParseFinished ==
  /\ bpc = "parse"
  /\ ri > Len(results_list)
  /\ Returns(Success(parsed_results))

NextBrave ==
  \/ BraveConfigUndefined
  \/ BraveDisabled
  \/ BraveKeyMissing
  \/ RequestSent
  \/ RequestFailed
  \/ StatusNot200
  \/ JsonDecodeFailed
  \/ ExplicitNoResults
  \/ ExtractionRaised
  \/ NothingExtracted
  \/ ResultsExtracted
  \/ SkipNonDictItem
  \/ ParseItem
  \/ ParseRaised
  \/ ParseFinished

-----------------------------------------------------------------------------
(* generate_full_report: the identifier and the dataset *)

MAX_GLOBENEWSWIRE_ARTICLES == 3

CapitalizeToken(t) ==
  CASE t = "example" -> "Example"
    [] t = "acme" -> "Acme"
    [] OTHER -> t

\* s.capitalize()
Capitalize(s) == IF s = <<>> THEN <<>> ELSE <<CapitalizeToken(Lower(s)[1])>> \o Lower(Tail(s))

\* not identifier or not identifier.strip()
IsEmptyIdentifier(id) == id = <<>> \/ Strip(id, Whitespace) = <<>>

\* the test that takes the identifier for a domain
LooksLikeDomain(id) ==
  /\ Contains(id, <<".">>)
  /\ ~Contains(id, <<" ">>)
  /\ StrLen(id) > 3
  /\ ~EndsWith(id, <<".">>)

\* get_domain_from_name(company_name): the first guess
get_domain_from_name(company_name) ==
  Remove(Remove(Remove(Lower(company_name), <<" ">>), <<",">>), <<".">>) \o <<".", "com">>

\* parsed_id_url.netloc.lower() if parsed_id_url.netloc else identifier.lower()
NetlocOrIdentifier(parsed_id_url, id) ==
  IF parsed_id_url.netloc # <<>> THEN Lower(parsed_id_url.netloc) ELSE Lower(id)

\* domain, for an identifier taken for a domain or for a company name
DomainOf(id) ==
  IF LooksLikeDomain(id)
  THEN NetlocOrIdentifier(
         UrlParse(IF \/ StartsWith(id, <<"http", ":", "/", "/">>)
                     \/ StartsWith(id, <<"https", ":", "/", "/">>)
                  THEN id ELSE <<"http", ":", "/", "/">> \o id),
         id)
  ELSE get_domain_from_name(id)

common_tlds ==
  {<<"com">>, <<"co">>, <<"org">>, <<"net">>, <<"gov">>, <<"edu">>, <<"io">>, <<"ai">>,
   <<"tech">>, <<"app">>, <<"uk">>, <<"ca">>, <<"de">>, <<"fr">>, <<"jp">>, <<"au">>}

\* potential_name_part, before the test for www, ftp and mail
NamePartByTld(name_parts, n) ==
  IF name_parts[n] \in common_tlds /\ n > 1 THEN name_parts[n - 1] ELSE name_parts[1]

PotentialNamePart(name_parts, n) ==
  IF NamePartByTld(name_parts, n) \in {<<"www">>, <<"ftp">>, <<"mail">>}
  THEN IF n > 2 /\ name_parts[n] \in common_tlds
       THEN name_parts[n - 1] ELSE name_parts[1]
  ELSE NamePartByTld(name_parts, n)

NameFromParts(domain, name_parts) ==
  IF Len(name_parts) > 1
  THEN Capitalize(PotentialNamePart(name_parts, Len(name_parts)))
  ELSE Capitalize(domain)

NameFromDomain(domain) == NameFromParts(domain, Split(domain, "."))

\* company_name, for an identifier taken for a domain or for a company name
CompanyNameOf(id) ==
  IF LooksLikeDomain(id) THEN NameFromDomain(DomainOf(id)) ELSE id

DatasetKeys ==
  {"website_content", "llm_estimates", "brave_news_snippets",
   "brave_size_estimate_snippets", "brave_subreddits", "brave_social_media_links",
   "globenewswire_articles"}

\* the values of the dataset: a bracketed placeholder string, a gathered
\* text, or a list of article records
Placeholder(msg) == [type |-> "str", placeholder |-> TRUE, text |-> msg]

Gathered(what) == [type |-> "str", placeholder |-> FALSE, text |-> what]

ArticleList(n) == [type |-> "list", placeholder |-> FALSE, len |-> n]

\* a default dataset that lacks the subreddit key
DefaultRawDataWithoutSubreddits ==
  [website_content |-> Placeholder("[Skipped - Domain not confirmed or scraping disabled/failed]"),
   llm_estimates |-> Placeholder("[Skipped - LLM client issue or task skipped]"),
   brave_news_snippets |-> Placeholder("[Skipped - Brave Search disabled or failed]"),
   brave_size_estimate_snippets |-> Placeholder("[Skipped - Brave Search disabled or failed]"),
   brave_social_media_links |->
     Placeholder("[Skipped - Social media link search not run or no results]"),
   globenewswire_articles |-> ArticleList(0)]

\* raw_data as initialized at lines 1600-1608
DefaultRawData ==
  [website_content |-> Placeholder("[Skipped - Domain not confirmed or scraping disabled/failed]"),
   llm_estimates |-> Placeholder("[Skipped - LLM client issue or task skipped]"),
   brave_news_snippets |-> Placeholder("[Skipped - Brave Search disabled or failed]"),
   brave_size_estimate_snippets |-> Placeholder("[Skipped - Brave Search disabled or failed]"),
   brave_subreddits |-> Placeholder("[Skipped - Brave Search disabled or failed]"),
   brave_social_media_links |->
     Placeholder("[Skipped - Social media link search not run or no results]"),
   globenewswire_articles |-> ArticleList(0)]

\* raw_data[key] = v
Assign(d, key, v) == [k \in DOMAIN d \cup {key} |-> IF k = key THEN v ELSE d[k]]

-----------------------------------------------------------------------------
(* generate_full_report: what each gathering step returns, by its outcome *)

get_llm_company_estimates(outcome) ==
  IF outcome = "ok" THEN Gathered("estimates")
  ELSE Placeholder("[LLM estimation failed: LM Studio Connection Error]")

scrape_website_with_subpages(outcome) ==
  IF outcome = "ok" THEN Gathered("--- Homepage: ")
  ELSE Placeholder("[Website scraping failed due to WebDriverException]")

search_brave_news(outcome) ==
  CASE outcome = "ok" -> Gathered("Title: ")
    [] outcome = "empty" -> Placeholder("[No relevant news results found via Brave Search]")
    [] OTHER -> Placeholder("[Brave News search failed: ")

search_brave_company_size_estimates(outcome) ==
  CASE outcome = "ok" -> Gathered("Title: ")
    [] outcome = "empty" ->
         Placeholder("[No web results found via Brave Web Search for size data]")
    [] OTHER -> Placeholder("[Brave Web Search for size data failed: ")

search_brave_relevant_subreddits(outcome) ==
  CASE outcome = "ok" -> Gathered("r/")
    [] outcome = "empty" ->
         Placeholder("[No web results found via Brave Web Search for this subreddit query]")
    [] OTHER -> Placeholder("[Brave Web Search for subreddits failed: ")

get_social_media_links(outcome) ==
  CASE outcome = "ok" -> Gathered("Social media links found by scanning website:")
    [] outcome = "empty" -> Placeholder("[No social media links found on company website]")
    [] OTHER -> Placeholder("[Social media links search failed: ")

\* the outcomes of a search with the configuration at hand
SearchOutcomes == IF brave_config = "ready" THEN {"ok", "empty", "failed"} ELSE {"failed"}

Call(name, outcome) == [call |-> name, outcome |-> outcome]

\* time.sleep(REQUEST_DELAY)
Sleep == Call("sleep", "ok")

\* time.sleep(0.2), between two articles
ShortSleep == Call("sleep", "short")

\* one request sent over the network, named by the call that sends it
Request(what) == [call |-> "request", outcome |-> what]

\* scrape_website_with_subpages: driver.get(base_url), then driver.get(url)
\* for each subpage it visits
CrawlRequests(outcome) ==
  IF outcome = "ok"
  THEN {[i \in 1..(1 + k) |-> Request("driver.get")] : k \in 0..MAX_SUBPAGES_TO_SCRAPE}
  ELSE {<<Request("driver.get")>>}

\* one article that is collected: get_globenewswire_article_content waits and
\* fetches it, summarize_text_with_lm_studio sends it to the LLM, and the loop
\* pauses while fewer than MAX_GLOBENEWSWIRE_ARTICLES are collected
OneArticle(article_count) ==
  <<Sleep, Request("session.get"), Request("chat.completions.create")>>
    \o (IF article_count < MAX_GLOBENEWSWIRE_ARTICLES THEN <<ShortSleep>> ELSE <<>>)

RECURSIVE ArticleRequests(_)
ArticleRequests(n) ==
  IF n = 0 THEN <<>> ELSE ArticleRequests(n - 1) \o OneArticle(n)

\* the requests and the waits inside one gathering step, in order
NetworkTraces(name, outcome, value) ==
  CASE name = "scrape_website_with_subpages" -> CrawlRequests(outcome)
    [] name = "scrape_globenewswire_news" ->
         {<<Sleep, Request("session.get")>> \o ArticleRequests(value.len)}
    [] name \in {"search_brave_news", "search_brave_company_size_estimates",
                 "search_brave_relevant_subreddits"} ->
         {IF brave_config = "ready" THEN <<Request("urlopen")>> ELSE <<>>}
    [] name = "get_social_media_links" -> {<<Request("requests.get")>>}
    [] OTHER -> {<<Request("chat.completions.create")>>}

NoReport == [kind |-> "none", message |-> "", details |-> ""]

Report == [kind |-> "report", message |-> "", details |-> ""]

Error(message, details) == [kind |-> "error", message |-> message, details |-> details]

-----------------------------------------------------------------------------
(* Inputs of a run *)

Identifiers ==
  {<<>>, <<" ">>, <<".", "abc">>, <<"example", ".", "com">>,
   <<"www", ".", "example", ".", "com">>, <<"Acme", " ", "Corp">>}

-----------------------------------------------------------------------------
(* generate_full_report: the state machine *)

ReportIdle ==
  /\ identifier = <<>>
  /\ lm_studio_client = "none"
  /\ chromedriver_found = FALSE
  /\ rpc = "idle"
  /\ raw_data = NoKeys
  /\ driver = "none"
  /\ temp_profile_dir_selenium = "none"
  /\ session = "none"
  /\ events = <<>>
  /\ exception = "none"
  /\ report_result = NoReport

ReportStart ==
  /\ identifier \in Identifiers
  /\ lm_studio_client \in {"none", "client"}
  /\ chromedriver_found \in BOOLEAN
  /\ brave_config \in BraveConfigs
  /\ rpc = "start"
  /\ raw_data = NoKeys
  /\ driver = "none"
  /\ temp_profile_dir_selenium = "none"
  /\ session = "none"
  /\ events = <<>>
  /\ exception = "none"
  /\ report_result = NoReport

other_vars == <<crawl_vars, response, bpc, results_list, ri, parsed_results, fetch_result>>

\* one gathering step: it sends its requests and returns, its value is
\* stored, and time.sleep(REQUEST_DELAY) follows
Gather(key, value, name, outcome, next) ==
  /\ raw_data' = Assign(raw_data, key, value)
  /\ \E trace \in NetworkTraces(name, outcome, value) :
       events' = events \o trace \o <<Call(name, outcome), Sleep>>
  /\ rpc' = next
  /\ UNCHANGED <<identifier, lm_studio_client, chromedriver_found, brave_config, driver,
                 temp_profile_dir_selenium, session, exception, report_result>>
  /\ UNCHANGED other_vars

\* a return inside the try block: the finally clause runs next
ReturnsFromTry(result) ==
  /\ report_result' = result
  /\ rpc' = "finally"
  /\ UNCHANGED <<identifier, lm_studio_client, chromedriver_found, brave_config, raw_data,
                 driver, temp_profile_dir_selenium, session, events, exception>>
  /\ UNCHANGED other_vars

\* an exception raised inside the try block
Raises(e) ==
  /\ exception' = e
  /\ rpc' = "except"
  /\ UNCHANGED <<identifier, lm_studio_client, chromedriver_found, brave_config, raw_data,
                 driver, temp_profile_dir_selenium, session, events, report_result>>
  /\ UNCHANGED other_vars

\* lm_studio_client is None: the early return, before the try block
ClientNotInitialized ==
  /\ rpc = "start"
  /\ lm_studio_client = "none"
  /\ report_result' = Error("LM Studio Client Not Initialized",
                            "Failed to configure the LM Studio client at startup.")
  /\ rpc' = "returned"
  /\ UNCHANGED <<identifier, lm_studio_client, chromedriver_found, brave_config, raw_data,
                 driver, temp_profile_dir_selenium, session, events, exception>>
  /\ UNCHANGED other_vars

SessionOpened ==
  /\ rpc = "start"
  /\ lm_studio_client # "none"
  /\ session' = "open"
  /\ rpc' = "validate"
  /\ UNCHANGED <<identifier, lm_studio_client, chromedriver_found, brave_config, raw_data,
                 driver, temp_profile_dir_selenium, events, exception, report_result>>
  /\ UNCHANGED other_vars

\* a rejection of the identifier that returns past the finally clause
EmptyIdentifierSkipsCleanup ==
  /\ rpc = "validate"
  /\ IsEmptyIdentifier(identifier)
  /\ report_result' = Error("Input identifier cannot be empty.", "")
  /\ rpc' = "returned"
  /\ UNCHANGED <<identifier, lm_studio_client, chromedriver_found, brave_config, raw_data,
                 driver, temp_profile_dir_selenium, session, events, exception>>
  /\ UNCHANGED other_vars

EmptyIdentifier ==
  /\ rpc = "validate"
  /\ IsEmptyIdentifier(identifier)
  /\ ReturnsFromTry(Error("Input identifier cannot be empty.", ""))

CompanyNameUndetermined ==
  /\ rpc = "validate"
  /\ ~IsEmptyIdentifier(identifier)
  /\ CompanyNameOf(Strip(identifier, Whitespace)) = <<>>
  /\ ReturnsFromTry(Error("Could not determine company name.",
                          "Identifier processing failed."))

DatasetInitialized ==
  /\ rpc = "validate"
  /\ ~IsEmptyIdentifier(identifier)
  /\ CompanyNameOf(Strip(identifier, Whitespace)) # <<>>
  /\ raw_data' = DefaultRawData
  /\ rpc' = "llm"
  /\ UNCHANGED <<identifier, lm_studio_client, chromedriver_found, brave_config, driver,
                 temp_profile_dir_selenium, session, events, exception, report_result>>
  /\ UNCHANGED other_vars

LlmEstimated ==
  /\ rpc = "llm"
  /\ \E outcome \in {"ok", "failed"} :
       Gather("llm_estimates", get_llm_company_estimates(outcome),
              "get_llm_company_estimates", outcome, "site")

ChromeDriverNotFound ==
  /\ rpc = "site"
  /\ ~chromedriver_found
  /\ raw_data' = Assign(raw_data, "website_content",
                        Placeholder("[Skipped - ChromeDriver not found]"))
  /\ rpc' = "brave"
  /\ UNCHANGED <<identifier, lm_studio_client, chromedriver_found, brave_config, driver,
                 temp_profile_dir_selenium, session, events, exception, report_result>>
  /\ UNCHANGED other_vars

\* setup_selenium_driver returns a driver; the profile directory may be missing
DriverStarted ==
  /\ rpc = "site"
  /\ chromedriver_found
  /\ driver' = "running"
  /\ temp_profile_dir_selenium' \in {"exists", "none"}
  /\ events' = Append(events, Call("setup_selenium_driver", "ok"))
  /\ rpc' = "crawl"
  /\ UNCHANGED <<identifier, lm_studio_client, chromedriver_found, brave_config, raw_data,
                 session, exception, report_result>>
  /\ UNCHANGED other_vars

\* setup_selenium_driver returns (None, temp_profile_dir): webdriver.Chrome
\* raised, or it started a browser and set_page_load_timeout raised, which
\* leaves a browser that no name refers to ("orphaned")
DriverFailed ==
  /\ rpc = "site"
  /\ chromedriver_found
  /\ driver' \in {"none", "orphaned"}
  /\ temp_profile_dir_selenium' \in {"exists", "none"}
  /\ raw_data' = Assign(raw_data, "website_content",
                        Placeholder("[Skipped - Selenium WebDriver failed to initialize]"))
  /\ events' = Append(events, Call("setup_selenium_driver", "failed"))
  /\ rpc' = "brave"
  /\ UNCHANGED <<identifier, lm_studio_client, chromedriver_found, brave_config,
                 session, exception, report_result>>
  /\ UNCHANGED other_vars

WebsiteScraped ==
  /\ rpc = "crawl"
  /\ \E outcome \in {"ok", "failed"} :
       Gather("website_content", scrape_website_with_subpages(outcome),
              "scrape_website_with_subpages", outcome, "brave")

\* if USE_BRAVE_SEARCH: the name is not defined
BraveFlagUndefined ==
  /\ rpc = "brave"
  /\ brave_config = "unset"
  /\ Raises("NameError")

BraveSkipped ==
  /\ rpc = "brave"
  /\ brave_config = "disabled"
  /\ rpc' = "social"
  /\ UNCHANGED <<identifier, lm_studio_client, chromedriver_found, brave_config, raw_data,
                 driver, temp_profile_dir_selenium, session, events, exception,
                 report_result>>
  /\ UNCHANGED other_vars

NewsSearched ==
  /\ rpc = "brave"
  /\ brave_config \in {"ready", "no_key"}
  /\ \E outcome \in SearchOutcomes :
       Gather("brave_news_snippets", search_brave_news(outcome),
              "search_brave_news", outcome, "size")

SizeSearched ==
  /\ rpc = "size"
  /\ \E outcome \in SearchOutcomes :
       Gather("brave_size_estimate_snippets", search_brave_company_size_estimates(outcome),
              "search_brave_company_size_estimates", outcome, "subreddits")

\* urlparse(url) on a result whose url is no str
SizeSearchRaised ==
  /\ rpc = "size"
  /\ brave_config = "ready"
  /\ Raises("AttributeError")

\* a subreddit search that hands control back to the news search
SubredditsSearchedThenNews ==
  /\ rpc = "subreddits"
  /\ \E outcome \in SearchOutcomes :
       Gather("brave_subreddits", search_brave_relevant_subreddits(outcome),
              "search_brave_relevant_subreddits", outcome, "brave")

SubredditsSearched ==
  /\ rpc = "subreddits"
  /\ \E outcome \in SearchOutcomes :
       Gather("brave_subreddits", search_brave_relevant_subreddits(outcome),
              "search_brave_relevant_subreddits", outcome, "social")

SocialLinksScraped ==
  /\ rpc = "social"
  /\ \E outcome \in {"ok", "empty", "failed"} :
       Gather("brave_social_media_links", get_social_media_links(outcome),
              "get_social_media_links", outcome, "articles")

\* scrape_globenewswire_news: [] when the search request fails
ArticlesScraped ==
  /\ rpc = "articles"
  /\ \/ Gather("globenewswire_articles", ArticleList(0), "scrape_globenewswire_news",
               "failed", "synthesis")
     \/ \E n \in 0..MAX_GLOBENEWSWIRE_ARTICLES :
          Gather("globenewswire_articles", ArticleList(n), "scrape_globenewswire_news",
                 IF n = 0 THEN "empty" ELSE "ok", "synthesis")

\* analyze_with_llm(search_name, raw_data, base_url_for_prompts)
Analyzed ==
  /\ rpc = "synthesis"
  /\ \E outcome \in {"ok", "failed"} :
       /\ events' = events \o <<Request("chat.completions.create"),
                                 Call("analyze_with_llm", outcome)>>
       /\ report_result' =
            IF outcome = "ok" THEN Report
            ELSE Error("LM Studio API Connection Error", "Failed to connect to LM Studio")
  /\ rpc' = "finally"
  /\ UNCHANGED <<identifier, lm_studio_client, chromedriver_found, brave_config, raw_data,
                 driver, temp_profile_dir_selenium, session, exception>>
  /\ UNCHANGED other_vars

\* an except clause that lets the exception pass to the caller
ExceptionPropagates ==
  /\ rpc = "except"
  /\ rpc' = "finally"
  /\ UNCHANGED <<identifier, lm_studio_client, chromedriver_found, brave_config, raw_data,
                 driver, temp_profile_dir_selenium, session, events, exception,
                 report_result>>
  /\ UNCHANGED other_vars

\* except Exception as e_main
ExceptionHandled ==
  /\ rpc = "except"
  /\ exception' = "none"
  /\ report_result' = Error("Unexpected Critical Error in Main Report Generation", exception)
  /\ rpc' = "finally"
  /\ UNCHANGED <<identifier, lm_studio_client, chromedriver_found, brave_config, raw_data,
                 driver, temp_profile_dir_selenium, session, events>>
  /\ UNCHANGED other_vars

\* the finally clause: driver.quit() and shutil.rmtree may raise, which is
\* logged; session.close()
CleanedUp ==
  /\ rpc = "finally"
  /\ \E quit_ok \in BOOLEAN :
       driver' = IF driver = "running" THEN (IF quit_ok THEN "quit" ELSE "quit_failed")
                 ELSE driver
  /\ \E removed \in BOOLEAN :
       temp_profile_dir_selenium' =
         IF temp_profile_dir_selenium = "exists" /\ removed THEN "removed"
         ELSE temp_profile_dir_selenium
  /\ session' = IF session = "open" THEN "closed" ELSE session
  /\ rpc' = "returned"
  /\ UNCHANGED <<identifier, lm_studio_client, chromedriver_found, brave_config, raw_data,
                 events, exception, report_result>>
  /\ UNCHANGED other_vars

NextReport ==
  \/ ClientNotInitialized
  \/ SessionOpened
  \/ EmptyIdentifier
  \/ CompanyNameUndetermined
  \/ DatasetInitialized
  \/ LlmEstimated
  \/ ChromeDriverNotFound
  \/ DriverStarted
  \/ DriverFailed
  \/ WebsiteScraped
  \/ BraveFlagUndefined
  \/ BraveSkipped
  \/ NewsSearched
  \/ SizeSearched
  \/ SizeSearchRaised
  \/ SubredditsSearched
  \/ SocialLinksScraped
  \/ ArticlesScraped
  \/ Analyzed
  \/ ExceptionHandled
  \/ CleanedUp

-----------------------------------------------------------------------------
(* Specifications *)

CrawlIdle ==
  /\ base_url = <<>>
  /\ links = <<>>
  /\ pc = "idle"
  /\ li = 1
  /\ link_priority = <<>>
  /\ potential_links = <<>>
  /\ relevant_urls = <<>>
  /\ ui = 1
  /\ combined_text = <<>>
  /\ scraped_urls = {}
  /\ subpages_scraped_count = 0
  /\ navigated = <<>>
  /\ failures = 0
  /\ crawl_result = NoResult

InitCrawl == CrawlStart /\ BraveIdle /\ ReportIdle

SpecCrawl == InitCrawl /\ [][NextCrawl]_vars

InitBrave == BraveStart /\ CrawlIdle /\ ReportIdle

SpecBrave == InitBrave /\ [][NextBrave]_vars

InitReport == ReportStart /\ CrawlIdle /\ BraveRestIdle

SpecReport == InitReport /\ [][NextReport]_vars

-----------------------------------------------------------------------------
(* Properties of the search-result normalizer *)

Body == response.body

Answered == bpc = "done" /\ response.kind = "ok"

\* data["news"]["results"] is a list of dict records
HasNewsRecords(data) ==
  /\ IsDict(data)
  /\ Has(data, "news")
  /\ IsDict(Get(data, "news"))
  /\ IsList(Get(Get(data, "news"), "results"))
  /\ \A i \in 1..Len(Get(Get(data, "news"), "results").l) :
       IsDict(Get(Get(data, "news"), "results").l[i])

NewsRecords(data) == Get(Get(data, "news"), "results").l

\* the payload says "no results": its mixed value is a dict of that type
SaysNoResults(data) ==
  /\ IsDict(data)
  /\ Has(data, "mixed")
  /\ IsDict(Get(data, "mixed"))
  /\ Get(Get(data, "mixed"), "type") = NoResultsType

\* C6 as stated: a 200 response whose news container holds a list of dict
\* records, and which does not say "no results", is answered with status
\* success and the normalized records of that list, one per item, in order.
C6_NewsRecordsReturned ==
  (Answered /\ HasNewsRecords(Body) /\ ~SaysNoResults(Body)) =>
    /\ fetch_result.status = "success"
    /\ Len(fetch_result.results) = Len(NewsRecords(Body))
    /\ \A i \in 1..Len(NewsRecords(Body)) :
         /\ ~NormalizeRaises(NewsRecords(Body)[i])
         /\ fetch_result.results[i] = Normalize(NewsRecords(Body)[i])

\* C7: a payload whose mixed value is a dict of type no_results is answered
\* with status success and an empty results list, whatever else it holds.
C7_NoResultsSignalWins ==
  (Answered /\ SaysNoResults(Body)) =>
    /\ fetch_result.status = "success"
    /\ fetch_result.results = <<>>

\* C7 witness: a payload that says "no results" and also holds news records
\* was answered with success.
C7_Witness ==
  /\ Answered
  /\ SaysNoResults(Body)
  /\ HasNewsRecords(Body)
  /\ NewsRecords(Body) # <<>>
  /\ fetch_result.status = "success"

\* a JSON value that holds no list item anywhere
RECURSIVE HoldsNoItems(_)
HoldsNoItems(v) ==
  CASE v.t = "list" -> v.l = <<>>
    [] v.t = "dict" -> \A k \in DOMAIN v.d : HoldsNoItems(v.d[k])
    [] OTHER -> TRUE

\* C8 as stated: a non-200 status, a body that is no JSON and a network
\* failure are answered with status error, a non-empty message and no
\* results; a 200 response with a JSON object that holds no record is never
\* answered with status error.
C8_ErrorOnlyOnTransportFailure ==
  bpc = "done" =>
    /\ response.kind \in TransportFailures =>
         /\ fetch_result.status = "error"
         /\ fetch_result.message # ""
         /\ fetch_result.results = <<>>
    /\ (response.kind = "ok" /\ IsDict(Body) /\ HoldsNoItems(Body)) =>
         fetch_result.status # "error"

\* the item is in top-level form: description and url at the top, no web
TopLevelForm(item) ==
  /\ IsDict(item)
  /\ Has(item, "description") /\ IsStr(Get(item, "description"))
  /\ Has(item, "url") /\ IsStr(Get(item, "url"))
  /\ ~Has(item, "web")
  /\ ~Has(item, "snippet")

\* the same item with its description and url moved under web
Nest(item) ==
  Dict([k \in (DOMAIN item.d \ {"description", "url"}) \cup {"web"} |->
          IF k = "web"
          THEN Dict([snippet |-> Get(item, "description"), url |-> Get(item, "url")])
          ELSE item.d[k]])

ParsedAll ==
  /\ bpc = "done"
  /\ fetch_result.status = "success"
  /\ results_list # <<>>
  /\ Len(fetch_result.results) = Len(results_list)

\* C9 as stated: an item that carries snippet S and URL U under web only is
\* normalized to the same record as the item that carries them as top-level
\* description and url, for every S and U.
C9_NestedEqualsTopLevel ==
  ParsedAll =>
    \A i, j \in 1..Len(results_list) :
      (TopLevelForm(results_list[j]) /\ results_list[i] = Nest(results_list[j])) =>
        fetch_result.results[i] = fetch_result.results[j]

\* C9 amended: the two forms are normalized to the same record for every
\* snippet S and every non-empty URL U.
C9_NestedEqualsTopLevelForUrl ==
  ParsedAll =>
    \A i, j \in 1..Len(results_list) :
      (/\ TopLevelForm(results_list[j])
       /\ Get(results_list[j], "url").s # <<>>
       /\ results_list[i] = Nest(results_list[j])) =>
        fetch_result.results[i] = fetch_result.results[j]

\* C9 witness: a list holding an item in both forms, with a snippet and a
\* URL, was normalized.
C9_Witness ==
  /\ ParsedAll
  /\ results_list = <<NestedItem(SnippetText, ItemUrl), FlatItem(SnippetText, ItemUrl)>>
  /\ results_list[1] = Nest(results_list[2])
  /\ fetch_result.results[1].url = Str(ItemUrl)

\* a JSON value from which no branch can take a record: it holds no
\* non-empty list and no dict with a title and a url
RECURSIVE HoldsNoRecord(_)
HoldsNoRecord(v) ==
  CASE v.t = "list" -> v.l = <<>>
    [] v.t = "dict" -> /\ ~(Has(v, "title") /\ Has(v, "url"))
                       /\ \A k \in DOMAIN v.d : HoldsNoRecord(v.d[k])
    [] OTHER -> TRUE

\* C12: a 200 response with a JSON object from which no branch can extract a
\* record is answered with status success, an empty results list and a
\* non-empty message, whatever the types of the values under news, web,
\* discussions, results, hits and mixed; it is never answered with error.
C12_EmptySuccessWithDiagnostic ==
  (Answered /\ IsDict(Body) /\ HoldsNoRecord(Body)) =>
    /\ fetch_result.status = "success"
    /\ fetch_result.results = <<>>
    /\ fetch_result.message # ""

\* the top-level branches, in the order of the walk (mixed comes last)
BranchOrder == <<"news", "web", "discussions", "results", "hits">>

\* the list a top-level branch holds: data[key]["results"] for a category
\* container, data[key] for results and hits
BranchList(data, key) ==
  IF key \in {"results", "hits"}
  THEN IF IsList(Get(data, key)) THEN Get(data, key).l ELSE <<>>
  ELSE IF IsDict(Get(data, key)) /\ IsList(Get(Get(data, key), "results"))
       THEN Get(Get(data, key), "results").l
       ELSE <<>>

NonEmptyBranches(data) ==
  {i \in 1..Len(BranchOrder) : BranchList(data, BranchOrder[i]) # <<>>}

\* the list of the first branch, in that order, that is not empty
FirstNonEmptyBranch(data) ==
  IF NonEmptyBranches(data) = {} THEN <<>>
  ELSE BranchList(data,
                  BranchOrder[CHOOSE i \in NonEmptyBranches(data) :
                                \A j \in NonEmptyBranches(data) : i <= j])

\* a JSON object without mixed whose category containers are dicts
CategoriesOnly(data) ==
  /\ IsDict(data)
  /\ ~Has(data, "mixed")
  /\ \A key \in {"news", "web", "discussions"} : Has(data, key) => IsDict(Get(data, key))

\* C16: the branches are walked in the order news, web, discussions, results,
\* hits, and the list that is parsed is that of the first branch that yields
\* a non-empty list: a branch that is present with an empty list does not
\* stop the walk.
C16_FirstNonEmptyBranchWins ==
  (Answered /\ CategoriesOnly(Body)) => results_list = FirstNonEmptyBranch(Body)

\* the record an item of a mixed list stands for: the dict under the key
\* its type names, the dict under <type>_result, or the flat item itself
InnerRecord(item) ==
  IF ~IsDict(item) THEN <<>>
  ELSE IF IsStr(Get(item, "type")) /\ IsDict(Get(item, TypeKey(item)))
  THEN <<Get(item, TypeKey(item))>>
  ELSE IF IsStr(Get(item, "type")) /\ IsDict(Get(item, TypeKey(item) \o "_result"))
  THEN <<Get(item, TypeKey(item) \o "_result")>>
  ELSE IF Has(item, "title") /\ Has(item, "url") THEN <<item>>
  ELSE <<>>

InnerRecords(items) == Flatten([i \in 1..Len(items) |-> InnerRecord(items[i])])

\* the payload holds a list under mixed and no other branch
MixedListOnly(data) ==
  /\ IsDict(data)
  /\ DOMAIN data.d = {"mixed"}
  /\ IsList(Get(data, "mixed"))

\* C17: a payload whose mixed container is a list is answered with status
\* success and one record per usable item, each item unwrapped to its inner
\* dict (flat record, {type, <type>: {...}} wrapper or <type>_result wrapper).
C17_MixedListUnwrapped ==
  (Answered /\ MixedListOnly(Body)) =>
    /\ fetch_result.status = "success"
    /\ Len(fetch_result.results) = Len(InnerRecords(Get(Body, "mixed").l))
    /\ \A i \in 1..Len(fetch_result.results) :
         fetch_result.results[i] = Normalize(InnerRecords(Get(Body, "mixed").l)[i])

\* the items found under the regions of a mixed dict: the lists under
\* searches[i].results, then main, top and side (a list, a dict holding a
\* results list, or a dict that is itself one flat record)
RegionList(v) ==
  IF IsList(v) THEN v.l
  ELSE IF IsDict(v) /\ IsList(Get(v, "results")) THEN Get(v, "results").l
  ELSE IF IsDict(v) THEN <<v>>
  ELSE <<>>

RegionsOf(m) ==
  SearchesResults(m)
    \o Flatten([i \in 1..Len(Regions) |-> RegionList(Get(m, Regions[i]))])

\* the payload holds under mixed a dict with named regions and nothing else
MixedRegionsOnly(data) ==
  /\ IsDict(data)
  /\ DOMAIN data.d = {"mixed"}
  /\ IsDict(Get(data, "mixed"))
  /\ DOMAIN Get(data, "mixed").d # {}
  /\ DOMAIN Get(data, "mixed").d \subseteq {"main", "top", "side", "searches"}

\* C18: the items found under main, top, side and searches[].results of a
\* mixed dict are unwrapped by the rule of a mixed list, so that every
\* record returned is built from the inner dict of its item.
C18_RegionsUnwrapped ==
  (Answered /\ MixedRegionsOnly(Body)) =>
    /\ fetch_result.status = "success"
    /\ Len(fetch_result.results) = Len(InnerRecords(RegionsOf(Get(Body, "mixed"))))
    /\ \A i \in 1..Len(fetch_result.results) :
         fetch_result.results[i] = Normalize(InnerRecords(RegionsOf(Get(Body, "mixed")))[i])

\* the values a provider may be taken from, in the order of preference
ProviderCandidates(res) ==
  <<IF IsDict(Get(res, "meta_url")) THEN Get(Get(res, "meta_url"), "display_name") ELSE None,
    Get(res, "source"),
    IF IsDict(Get(res, "profile")) THEN Get(Get(res, "profile"), "name") ELSE None,
    IF IsStr(UrlVal(res)) THEN Str(UrlParse(UrlVal(res).s).netloc) ELSE None>>

NonEmptyCandidates(res) ==
  {i \in 1..Len(ProviderCandidates(res)) : Truthy(ProviderCandidates(res)[i])}

FirstProvider(res) ==
  ProviderCandidates(res)[CHOOSE i \in NonEmptyCandidates(res) :
                            \A j \in NonEmptyCandidates(res) : i <= j]

\* C19: the provider of a normalized record is the first non-empty value in
\* the order meta_url.display_name, source, profile.name, host of the
\* record's URL; an item whose meta_url dict has no display_name and which
\* has a source gets that source.
C19_ProviderFallsThrough ==
  ParsedAll =>
    \A i \in 1..Len(results_list) :
      NonEmptyCandidates(results_list[i]) # {} =>
        fetch_result.results[i].provider = FirstProvider(results_list[i])

\* the str under a key of the item, or under web for the nested snippet
\* (empty when the key is missing)
Field(res, key) == IF IsStr(Get(res, key)) THEN Get(res, key).s ELSE <<>>

DescriptionFields(res) ==
  <<Field(res, "description"),
    Field(res, "snippet"),
    IF IsDict(Get(res, "web")) THEN Field(Get(res, "web"), "snippet") ELSE <<>>>>

NonEmptyFields(res) ==
  {i \in 1..Len(DescriptionFields(res)) : DescriptionFields(res)[i] # <<>>}

FirstDescription(res) ==
  IF NonEmptyFields(res) = {} THEN <<>>
  ELSE DescriptionFields(res)[CHOOSE i \in NonEmptyFields(res) :
                                \A j \in NonEmptyFields(res) : i <= j]

\* C20 as stated: the description of a normalized record is the first
\* non-empty value among description, snippet and web.snippet, and the empty
\* string when none of them is present.
C20_DescriptionOrEmpty ==
  ParsedAll =>
    \A i \in 1..Len(results_list) :
      fetch_result.results[i].description = Str(FirstDescription(results_list[i]))

\* C20 amended: the description of a normalized record is the first
\* non-empty value among description, snippet and web.snippet with leading
\* and trailing whitespace removed, and "No content available." when none of
\* them is present or all are empty.
C20_DescriptionOrNoContent ==
  ParsedAll =>
    \A i \in 1..Len(results_list) :
      fetch_result.results[i].description =
        IF NonEmptyFields(results_list[i]) = {} THEN NoContent
        ELSE Str(Strip(FirstDescription(results_list[i]), Whitespace))

\* C20 witness: a list was normalized that holds an item with a description,
\* an item with a snippet only, an item with web.snippet only and an item
\* with none of the three.
C20_Witness ==
  /\ ParsedAll
  /\ \E i \in 1..Len(results_list) :
       /\ NonEmptyFields(results_list[i]) = {}
       /\ fetch_result.results[i].description = NoContent
  /\ \E i \in 1..Len(results_list) :
       /\ NonEmptyFields(results_list[i]) = {3}
       /\ fetch_result.results[i].description = Str(SnippetText)
  /\ \E i \in 1..Len(results_list) :
       /\ NonEmptyFields(results_list[i]) = {2}
       /\ fetch_result.results[i].description = Str(SnippetText)
  /\ \E i \in 1..Len(results_list) :
       /\ NonEmptyFields(results_list[i]) = {1, 2, 3}
       /\ fetch_result.results[i].description = Str(<<"first">>)

RecordKeys == {"title", "description", "url", "provider", "date_published"}

\* the value is None or the empty string
Blank(v) == v = None \/ v = Str(<<>>)

\* C30: every record in the results list of a success return has exactly the
\* five keys title, description, url, provider and date_published, and its
\* title, description and provider are never None and never the empty
\* string, for every dict item of the selected result list, items whose title
\* is present but empty included.
C30_RecordsComplete ==
  (bpc = "done" /\ fetch_result.status = "success") =>
    \A i \in 1..Len(fetch_result.results) :
      /\ DOMAIN fetch_result.results[i] = RecordKeys
      /\ ~Blank(fetch_result.results[i].title)
      /\ ~Blank(fetch_result.results[i].description)
      /\ ~Blank(fetch_result.results[i].provider)

-----------------------------------------------------------------------------
(* Properties of the orchestrator *)

AtSynthesis == rpc = "synthesis"

\* the calls that gather a value of the dataset
Steps ==
  {i \in 1..Len(events) : events[i].call \notin {"sleep", "request", "setup_selenium_driver"}}

Failed(name) ==
  \E i \in Steps : events[i].call = name /\ events[i].outcome = "failed"

\* every gathering call that was made has failed
EveryCollaboratorFailed == \A i \in Steps : events[i].outcome = "failed"

NoExceptionEscapes == rpc = "returned" => (exception = "none" /\ report_result.kind # "none")

ReportReturned == rpc = "returned"

\* C11: on every exit path of generate_full_report, every resource acquired
\* during the run has been released when the function returns: a browser that
\* was started has been quit, a profile directory that was created has been
\* removed, and the HTTP session that was opened has been closed.
C11_ResourcesReleased ==
  ReportReturned =>
    /\ driver \in {"none", "quit"}
    /\ temp_profile_dir_selenium \in {"none", "removed"}
    /\ session \in {"none", "closed"}

\* C13: generate_full_report never raises to its caller: whatever the
\* identifier and whichever steps fail, it returns a dict with exactly one of
\* the keys report and error, and an error result carries a non-empty message
\* (its details may be empty).
C13_ReturnsReportOrError ==
  ReportReturned =>
    /\ exception = "none"
    /\ report_result.kind \in {"report", "error"}
    /\ report_result.kind = "error" => report_result.message # ""
    /\ report_result.kind = "report" => report_result.message = ""

\* C13 witness: a step raised inside the try block after an earlier step had
\* failed, and the run returned an error dict that names the exception.
C13_Witness ==
  /\ ReportReturned
  /\ Failed("search_brave_news")
  /\ report_result = Error("Unexpected Critical Error in Main Report Generation",
                           "AttributeError")

\* the identifier yields a company name, so that the run gets to gather
ValidIdentifier ==
  /\ ~IsEmptyIdentifier(identifier)
  /\ CompanyNameOf(Strip(identifier, Whitespace)) # <<>>

Ran(name) == \E i \in 1..Len(events) : events[i].call = name

\* the browser driver is absent: no ChromeDriver, or it failed to start
DriverAbsent ==
  \/ ~chromedriver_found
  \/ \E i \in 1..Len(events) : events[i] = Call("setup_selenium_driver", "failed")

\* the search configuration, the LLM client or the browser driver is absent
DependencyAbsent == brave_config # "ready" \/ lm_studio_client = "none" \/ DriverAbsent

IsPlaceholder(key) ==
  key \in DOMAIN raw_data /\ raw_data[key].type = "str" /\ raw_data[key].placeholder

\* C14: a run in which the search configuration, the LLM client or the
\* browser driver is absent, and in which no step raises for another reason,
\* still executes the remaining gathering steps and holds a placeholder
\* string under the key of each source that could not be gathered.
C14_AbsentDependencyDegrades ==
  (ReportReturned /\ ValidIdentifier /\ DependencyAbsent
     /\ report_result.details # "AttributeError") =>
    /\ Ran("get_social_media_links")
    /\ Ran("scrape_globenewswire_news")
    /\ DOMAIN raw_data = DatasetKeys
    /\ lm_studio_client = "none" => IsPlaceholder("llm_estimates")
    /\ DriverAbsent => IsPlaceholder("website_content")
    /\ brave_config # "ready" =>
         /\ IsPlaceholder("brave_news_snippets")
         /\ IsPlaceholder("brave_size_estimate_snippets")
         /\ IsPlaceholder("brave_subreddits")

\* the dataset key that a gathering step fills
StepKey(name) ==
  CASE name = "get_llm_company_estimates" -> "llm_estimates"
    [] name = "scrape_website_with_subpages" -> "website_content"
    [] name = "search_brave_news" -> "brave_news_snippets"
    [] name = "search_brave_company_size_estimates" -> "brave_size_estimate_snippets"
    [] name = "search_brave_relevant_subreddits" -> "brave_subreddits"
    [] name = "get_social_media_links" -> "brave_social_media_links"
    [] name = "scrape_globenewswire_news" -> "globenewswire_articles"

GatheringSteps ==
  {i \in 1..Len(events) :
     events[i].call \notin {"sleep", "request", "setup_selenium_driver", "analyze_with_llm"}}

\* the run got as far as gathering, with a search switch that is defined
Gathering == raw_data # NoKeys /\ brave_config # "unset"

\* C15: in a run that gathers, a failure inside a gathering step leaves a
\* placeholder string under that step's key and under no other step's key,
\* and every later step, the final synthesis call included, still runs.
C15_StepFailureIsolated ==
  (ReportReturned /\ Gathering) =>
    /\ Ran("analyze_with_llm")
    /\ \A i \in GatheringSteps :
         /\ events[i].outcome = "failed" => IsPlaceholder(StepKey(events[i].call))
         /\ events[i].outcome = "ok" => ~IsPlaceholder(StepKey(events[i].call))

\* the place of a step in the order of lines 1612-1669
StepRank(name) ==
  CASE name = "get_llm_company_estimates" -> 1
    [] name = "scrape_website_with_subpages" -> 2
    [] name = "search_brave_news" -> 3
    [] name = "search_brave_company_size_estimates" -> 4
    [] name = "search_brave_relevant_subreddits" -> 5
    [] name = "get_social_media_links" -> 6
    [] name = "scrape_globenewswire_news" -> 7
    [] name = "analyze_with_llm" -> 8

\* the rank of the step that control stands in front of
PositionRank(at) ==
  CASE at = "llm" -> 1
    [] at \in {"site", "crawl"} -> 2
    [] at = "brave" -> 3
    [] at = "size" -> 4
    [] at = "subreddits" -> 5
    [] at = "social" -> 6
    [] at = "articles" -> 7
    [] at = "synthesis" -> 8
    [] OTHER -> 9

\* the names of the steps that have returned, in the order they returned
StepsRun ==
  SelectSeq(events, LAMBDA e : e.call \notin {"sleep", "request", "setup_selenium_driver"})

\* C21: in every run that passes input validation, the steps that execute do
\* so in the order LLM pre-estimate, site crawl, news search, size search,
\* subreddit search, social-link scrape, article scrape, final synthesis: a
\* step that has returned is followed by later steps of the order only, a step
\* about to start has every returned step before it in the order, and no step
\* runs twice.
C21_StepsInFixedOrder ==
  /\ \A i, j \in 1..Len(StepsRun) :
       i < j => StepRank(StepsRun[i].call) < StepRank(StepsRun[j].call)
  /\ \A i \in 1..Len(StepsRun) : StepRank(StepsRun[i].call) < PositionRank(rpc)
  /\ ~ValidIdentifier => StepsRun = <<>>

\* C21 witness: a run that passed input validation has returned after all
\* eight steps executed, one after the other.
C21_Witness ==
  /\ ReportReturned
  /\ ValidIdentifier
  /\ [i \in 1..Len(StepsRun) |-> StepRank(StepsRun[i].call)] = <<1, 2, 3, 4, 5, 6, 7, 8>>

\* the positions of the requests sent over the network during the run
Requests == {i \in 1..Len(events) : events[i].call = "request"}

\* C22: in every run, each external network call (LLM pre-estimate, homepage
\* and subpage fetches, each search query, social-link fetch, article-list and
\* article fetches, article summarization, final synthesis) is preceded by a
\* wait of the fixed delay since the previous external call: a fixed-delay
\* wait lies between any two requests.
C22_DelayBeforeEachCall ==
  \A i, j \in Requests : i < j => \E k \in (i + 1)..(j - 1) : events[k] = Sleep

\* C29: when the identifier is empty or only whitespace, generate_full_report
\* returns an error result without starting a browser driver and without
\* running any gathering or synthesis step, and the HTTP session it opened is
\* closed before it returns.
C29_EmptyIdentifierRejected ==
  IsEmptyIdentifier(identifier) =>
    /\ events = <<>>
    /\ driver = "none"
    /\ temp_profile_dir_selenium = "none"
    /\ raw_data = NoKeys
    /\ ReportReturned =>
         /\ report_result.kind = "error"
         /\ session \in {"none", "closed"}
         /\ lm_studio_client # "none" =>
              /\ report_result = Error("Input identifier cannot be empty.", "")
              /\ session = "closed"

\* C29 witness: a run on a whitespace identifier opened its session, returned
\* the error and closed the session.
C29_Witness ==
  /\ ReportReturned
  /\ identifier = <<" ">>
  /\ session = "closed"
  /\ report_result = Error("Input identifier cannot be empty.", "")

====
